---------------------------- MODULE Spec2Model ----------------------------
(***************************************************************************)
(* A model of chronomaly's forecast-vs-actual comparison engine, of its    *)
(* cumulative-volume selectors, of its anomaly detection and notification  *)
(* workflows, of its post-detection stages and of its BigQuery writer.     *)
(*                                                                         *)
(*   SpecCompare  one call of ForecastActualComparator._compare_metric on  *)
(*                a forecast cell and an actual cell.                      *)
(*   SpecSelect   CumulativeThresholdFilter.filter (pre-detection) and     *)
(*                ForecastActualComparator._filter_cumulative_threshold    *)
(*                (post-detection) on the same forecast table.             *)
(*   SpecDetect   ForecastActualComparator.detect: validation, pivoting    *)
(*                and standardization, comparison of every row and metric. *)
(*   SpecWorkflow AnomalyDetectionWorkflow.run and run_without_output with *)
(*                their readers, filters, detector and writer.             *)
(*   SpecSplit    ForecastActualComparator._split_metric_to_dimensions.    *)
(*   SpecFilter   AnomalyFilter.process applied twice.                     *)
(*   SpecConstruct  the constructors of the two selectors, on valid and    *)
(*                invalid thresholds, and a run of what they constructed.  *)
(*   SpecWrite    BigQueryDataWriter.write, whose calls may raise.         *)
(*   SpecNotify   NotificationWorkflow.run over its notifiers.             *)
(*   SpecStage    process() of AnomalyFilter, DeviationFilter and          *)
(*                DeviationFormatter on a table the caller holds.          *)
(*   SpecActual   CumulativeThresholdFilter._filter_actual_by_metrics on   *)
(*                the raw actual table.                                    *)
(*                                                                         *)
(* Floats are modelled in fixed point: the integer n stands for the float  *)
(* n / Scale.  A float value is a record [k, v]: k = "num" with v the      *)
(* fixed-point integer, k = "nan", or k = "inf" with v the sign.  A field  *)
(* of a forecast cell (a piece of text between two '|') is a token: the    *)
(* text of a float (k = "num", "nan", "inf") or text that float() rejects  *)
(* (k = "str").  Percentages of deviation are integers counting            *)
(* hundredths of a percent, which is what round(x, 2) keeps.  Arithmetic   *)
(* is exact: the rounding error of float operations is not modelled.       *)
(***************************************************************************)
EXTENDS Integers, Sequences, FiniteSets, TLC

VARIABLES
    pc,                  \* position of the modelled call
    forecast_value,      \* _compare_metric: the forecast cell, split on '|'
    actual_value,        \* _compare_metric: the actual cell
    date_value,          \* _compare_metric: the date of the row, or NoDate
    result,              \* _compare_metric: the returned row, or the exception
    warned,              \* _compare_metric: the field-count warning was issued
    forecast_df,         \* selectors: the forecast table, a sequence of rows
    threshold_pct,       \* selectors: the threshold, <<numerator, denominator>>
    sort_order,          \* selectors: order sort_values gave the pre-filter
    pre_kept,            \* filter(): metric columns of the filtered forecast
    result_df,           \* detect: the result rows before the cumulative filter
    post_kept,           \* detect: positions of the result rows it returned
    input_types,         \* detect: which of its two arguments are DataFrames
    det_forecast_df,     \* detect: the forecast table, rows of date and cells
    actual_df,           \* detect: the actual table in long format
    forecast_std,        \* detect: the standardized forecast table
    actual_std,          \* detect: the pivoted, standardized actual table
    all_columns,         \* detect: the sorted union of the metric columns
    results,             \* detect: the result rows of _compare_all_metrics
    error,               \* detect: the exception raised, "" for none
    method,              \* workflow: the entry point, run or run_without_output
    data_writer,         \* workflow: a writer, or None
    pre_filters,         \* workflow: the number of pre-filters configured
    post_filters,        \* workflow: the kinds of the post-filters configured
    wf_forecast_df,      \* workflow: forecast_df of _execute_detection
    wf_actual_df,        \* workflow: actual_df of _execute_detection
    anomaly_df,          \* workflow: anomaly_df of _execute_detection
    filter_idx,          \* workflow: position of the running filter loop
    calls,               \* workflow: the calls made on the components, in order
    wf_error,            \* workflow: the exception the entry point raised, or ""
    returned,            \* workflow: the table the entry point returned
    dimension_names,     \* splitter: the configured dimension names
    dimension_values,    \* splitter: the raw dimension values behind row 1's key
    metric_column,       \* splitter: the 'metric' column, one key per row
    dimension_columns,   \* splitter: per row, the value of each dimension column
    exclude_no_forecast, \* AnomalyFilter: the constructor's argument
    input_df,            \* AnomalyFilter: the table handed to the first process call
    filtered_once,       \* AnomalyFilter: what process returned for input_df
    filtered_twice,      \* AnomalyFilter: what process returned for filtered_once
    writer,              \* BigQueryDataWriter: project, dataset, table and dispositions
    fail_at,             \* BigQueryDataWriter: the call of write that raises, if any
    cause,               \* BigQueryDataWriter: the message of the exception raised there
    table_id,            \* BigQueryDataWriter: the destination handed to the client
    job_config,          \* BigQueryDataWriter: the dispositions of the load job
    write_error,         \* BigQueryDataWriter: the exception write raised
    notifiers,           \* NotificationWorkflow: the notifiers, each a class name and an outcome
    anomalies_data,      \* NotificationWorkflow: the anomaly table
    payload,             \* NotificationWorkflow.run: the payload
    notify_idx,          \* NotificationWorkflow.run: position of the loop over notifiers
    notify_calls,        \* NotificationWorkflow.run: the notify calls made, in order
    notify_error,        \* NotificationWorkflow.run: the exception raised
    stage,               \* post stage: its class and constructor arguments
    stage_input,         \* post stage: the table as it was when process was called
    caller_df,           \* post stage: the caller's table, the object handed to process
    stage_returned,      \* post stage: the table process returned
    returned_input,      \* post stage: process returned the object it was handed
    transformer_columns, \* filter(): the dimension columns of the transformer
    actual_long,         \* filter(): the actual table, rows of raw dimension values
    metrics_to_keep,     \* filter(): the metric columns kept in the filtered forecast
    filtered_actual      \* filter(): the filtered actual table

vars == <<pc, forecast_value, actual_value, date_value, result, warned,
          forecast_df, threshold_pct, sort_order, pre_kept, result_df,
          post_kept,
          input_types, det_forecast_df, actual_df, forecast_std, actual_std,
          all_columns, results, error,
          method, data_writer, pre_filters, post_filters, wf_forecast_df,
          wf_actual_df, anomaly_df, filter_idx, calls, wf_error, returned,
          dimension_names, dimension_values, metric_column,
          dimension_columns,
          exclude_no_forecast, input_df, filtered_once, filtered_twice,
          writer, fail_at, cause, table_id, job_config, write_error,
          notifiers, anomalies_data, payload, notify_idx, notify_calls,
          notify_error,
          stage, stage_input, caller_df, stage_returned, returned_input,
          transformer_columns, actual_long, metrics_to_keep,
          filtered_actual>>

compareVars ==
    <<forecast_value, actual_value, date_value, result, warned>>
selectVars ==
    <<forecast_df, threshold_pct, sort_order, pre_kept, result_df, post_kept>>
detectVars ==
    <<input_types, det_forecast_df, actual_df, forecast_std, actual_std,
      all_columns, results, error>>
workflowVars ==
    <<method, data_writer, pre_filters, post_filters, wf_forecast_df,
      wf_actual_df, anomaly_df, filter_idx, calls, wf_error, returned>>
splitVars ==
    <<dimension_names, dimension_values, metric_column, dimension_columns>>
filterVars ==
    <<exclude_no_forecast, input_df, filtered_once, filtered_twice>>
writeVars ==
    <<writer, fail_at, cause, table_id, job_config, write_error>>
notifyVars ==
    <<notifiers, anomalies_data, payload, notify_idx, notify_calls,
      notify_error>>
stageVars ==
    <<stage, stage_input, caller_df, stage_returned, returned_input>>
actualVars ==
    <<transformer_columns, actual_long, metrics_to_keep, filtered_actual>>

\* The variables outside each specification's own group.
outsideCompare ==
    <<selectVars, detectVars, workflowVars, splitVars, filterVars,
      writeVars, notifyVars, stageVars, actualVars>>
outsideSelect ==
    <<compareVars, detectVars, workflowVars, splitVars, filterVars,
      writeVars, notifyVars, stageVars, actualVars>>
outsideDetect ==
    <<compareVars, selectVars, workflowVars, splitVars, filterVars,
      writeVars, notifyVars, stageVars, actualVars>>
outsideWorkflow ==
    <<compareVars, selectVars, detectVars, splitVars, filterVars,
      writeVars, notifyVars, stageVars, actualVars>>
outsideSplit ==
    <<compareVars, selectVars, detectVars, workflowVars, filterVars,
      writeVars, notifyVars, stageVars, actualVars>>
outsideFilter ==
    <<compareVars, selectVars, detectVars, workflowVars, splitVars,
      writeVars, notifyVars, stageVars, actualVars>>
outsideWrite ==
    <<compareVars, selectVars, detectVars, workflowVars, splitVars,
      filterVars, notifyVars, stageVars, actualVars>>
outsideNotify ==
    <<compareVars, selectVars, detectVars, workflowVars, splitVars,
      filterVars, writeVars, stageVars, actualVars>>
outsideStage ==
    <<compareVars, selectVars, detectVars, workflowVars, splitVars,
      filterVars, writeVars, notifyVars, actualVars>>
outsideActual ==
    <<compareVars, selectVars, detectVars, workflowVars, splitVars,
      filterVars, writeVars, notifyVars, stageVars>>

---------------------------------------------------------------------------
(* Bounds of the model.                                                    *)

\* Fixed-point resolution: the integer n is the float n / Scale.
Scale == 2

\* Numeric fields and actuals range over -MaxVal..MaxVal (fixed point).
MaxVal == 3

\* Point forecasts of the selectors' tables range over -1..MaxPoint (fixed
\* point).
MaxPoint == 4

---------------------------------------------------------------------------
(* Floats and tokens.                                                      *)

Num(n) == [k |-> "num", v |-> n]
NaN == [k |-> "nan", v |-> 0]
PosInf == [k |-> "inf", v |-> 1]
NegInf == [k |-> "inf", v |-> -1]
\* Text that float() rejects ('', 'abc', 'None', ...).
BadText == [k |-> "str", v |-> 0]
\* The Python object None (an actual cell may hold it).
PyNone == [k |-> "none", v |-> 0]

Zero == Num(0)

IsNaN(x) == x.k = "nan"
IsFinite(x) == x.k = "num"

\* Python's float comparisons: every comparison with nan is false.
EqF(x, y) == /\ ~IsNaN(x) /\ ~IsNaN(y)
             /\ x.k = y.k /\ x.v = y.v
LtF(x, y) == /\ ~IsNaN(x) /\ ~IsNaN(y)
             /\ \/ x.k = "num" /\ y.k = "num" /\ x.v < y.v
                \/ x.k = "inf" /\ x.v < 0 /\ ~(y.k = "inf" /\ y.v < 0)
                \/ y.k = "inf" /\ y.v > 0 /\ ~(x.k = "inf" /\ x.v > 0)
LeF(x, y) == LtF(x, y) \/ EqF(x, y)

Abs(n) == IF n < 0 THEN -n ELSE n

\* n / d rounded to the nearest integer, ties to the even one: Python's
\* round() of a float.  d # 0.
RoundHalfEvenDiv(n, d) ==
    LET nn == IF d < 0 THEN -n ELSE n
        dd == Abs(d)
        q == nn \div dd
        r == nn % dd
    IN  IF 2 * r < dd THEN q
        ELSE IF 2 * r > dd THEN q + 1
        ELSE IF q % 2 = 0 THEN q ELSE q + 1

\* round(x) of a finite float x (fixed point) to an int.
RoundToInt(n) == RoundHalfEvenDiv(n, Scale)

---------------------------------------------------------------------------
(* ForecastActualComparator: class constants.                              *)

QUANTILE_POINT_IDX == 0
QUANTILE_Q10_IDX == 1
QUANTILE_Q90_IDX == 9
EXPECTED_QUANTILE_COUNT == 10

NoDate == "None"

---------------------------------------------------------------------------
(* _compare_metric, lines 383-402: parsing the forecast cell.              *)

\* float(text): a float, or ValueError for text that is no float.
FloatFails(tok) == tok.k \notin {"num", "nan", "inf"}

\* float(forecast_parts[idx]) if len(forecast_parts) > idx else 0.0
\* (idx counts from 0, a TLA+ sequence from 1).
FieldOrZero(parts, idx) ==
    IF Len(parts) > idx THEN parts[idx + 1] ELSE Zero

\* Only a field that is read can raise: the try block of lines 386-402.
ParseRaises(parts) ==
    \/ Len(parts) > QUANTILE_POINT_IDX /\ FloatFails(parts[QUANTILE_POINT_IDX + 1])
    \/ Len(parts) > QUANTILE_Q10_IDX /\ FloatFails(parts[QUANTILE_Q10_IDX + 1])
    \/ Len(parts) > QUANTILE_Q90_IDX /\ FloatFails(parts[QUANTILE_Q90_IDX + 1])

\* Mutant of ParseForecast: a cell whose number of fields is not
\* EXPECTED_QUANTILE_COUNT parses to 0.0, 0.0, 0.0.
ParseForecastStrict(parts) ==
    IF ParseRaises(parts) \/ Len(parts) # EXPECTED_QUANTILE_COUNT
    THEN [point |-> Zero, q10 |-> Zero, q90 |-> Zero]
    ELSE [point |-> parts[QUANTILE_POINT_IDX + 1],
          q10 |-> parts[QUANTILE_Q10_IDX + 1],
          q90 |-> parts[QUANTILE_Q90_IDX + 1]]

\* The (point_forecast, q10, q90) left by lines 383-402.
ParseForecast(parts) ==
    IF ParseRaises(parts)
    THEN [point |-> Zero, q10 |-> Zero, q90 |-> Zero]
    ELSE [point |-> FieldOrZero(parts, QUANTILE_POINT_IDX),
          q10 |-> FieldOrZero(parts, QUANTILE_Q10_IDX),
          q90 |-> FieldOrZero(parts, QUANTILE_Q90_IDX)]

\* The warning of lines 393-397 is issued when parsing did not raise and
\* fewer than EXPECTED_QUANTILE_COUNT fields are present.
ParseWarns(parts) ==
    ~ParseRaises(parts) /\ Len(parts) < EXPECTED_QUANTILE_COUNT

\* Lines 404-408: float(actual_value), 0.0 on ValueError or TypeError.
ParseActual(a) == IF FloatFails(a) THEN Zero ELSE a

---------------------------------------------------------------------------
(* _compare_metric, lines 410-442: status and deviation.                   *)

\* Mutant of NoForecast: the all-zero test of lines 417-419 is left out.
NoForecastNaNOnly(f) ==
    IsNaN(f.q10) \/ IsNaN(f.q90) \/ IsNaN(f.point)

\* Lines 415-419: a forecast that is not a number, or all zero.
NoForecast(f) ==
    \/ IsNaN(f.q10) \/ IsNaN(f.q90) \/ IsNaN(f.point)
    \/ EqF(f.q10, Zero) /\ EqF(f.q90, Zero) /\ EqF(f.point, Zero)

\* Mutant of Status: the interval test of line 420 is strict.
StatusStrict(f, actual) ==
    IF NoForecastNaNOnly(f)
       \/ (EqF(f.q10, Zero) /\ EqF(f.q90, Zero) /\ EqF(f.point, Zero))
    THEN "NO_FORECAST"
    ELSE IF LtF(f.q10, actual) /\ LtF(actual, f.q90) THEN "IN_RANGE"
    ELSE IF LtF(actual, f.q10) THEN "BELOW_P10"
    ELSE IF LtF(f.q90, actual) THEN "ABOVE_P90"
    ELSE "NO_FORECAST"

\* Mutant of Status: the test against q90 of line 434 comes before the test
\* against q10 of line 424.
StatusAboveFirst(f, actual) ==
    IF NoForecast(f) THEN "NO_FORECAST"
    ELSE IF LeF(f.q10, actual) /\ LeF(actual, f.q90) THEN "IN_RANGE"
    ELSE IF LtF(f.q90, actual) THEN "ABOVE_P90"
    ELSE IF LtF(actual, f.q10) THEN "BELOW_P10"
    ELSE "NO_FORECAST"

\* Lines 411-442.  The status stays at its initial 'NO_FORECAST' when no
\* branch assigns it (an actual that is nan compares false with everything).
Status(f, actual) ==
    IF NoForecast(f) THEN "NO_FORECAST"
    ELSE IF LeF(f.q10, actual) /\ LeF(actual, f.q90) THEN "IN_RANGE"
    ELSE IF LtF(actual, f.q10) THEN "BELOW_P10"
    ELSE IF LtF(f.q90, actual) THEN "ABOVE_P90"
    ELSE "NO_FORECAST"

\* Lines 426-432 and 436-442 for a bound and an actual that are finite, in
\* hundredths of a percent as round(deviation_pct, 2) of line 451 keeps them:
\* (bound - actual) / bound * 100 below the bound, (actual - bound) / bound
\* * 100 above it, abs(actual) * 100 when the bound is 0.
\* Mutant of DeviationBelow: the deviation is taken relative to the actual.
DeviationBelowOfActual(q10, actual) ==
    IF actual # 0 THEN RoundHalfEvenDiv((q10 - actual) * 10000, actual)
    ELSE 0

DeviationBelow(q10, actual) ==
    IF q10 # 0 THEN RoundHalfEvenDiv((q10 - actual) * 10000, q10)
    ELSE IF actual # 0 THEN RoundHalfEvenDiv(Abs(actual) * 10000, Scale)
    ELSE 0

\* Mutant of DeviationAbove: the difference is taken the other way round.
DeviationAboveReversed(q90, actual) ==
    IF q90 # 0 THEN RoundHalfEvenDiv((q90 - actual) * 10000, q90)
    ELSE IF actual # 0 THEN RoundHalfEvenDiv(Abs(actual) * 10000, Scale)
    ELSE 0

DeviationAbove(q90, actual) ==
    IF q90 # 0 THEN RoundHalfEvenDiv((actual - q90) * 10000, q90)
    ELSE IF actual # 0 THEN RoundHalfEvenDiv(Abs(actual) * 10000, Scale)
    ELSE 0

\* round(deviation_pct, 2), given the status; 0.0 unless a bound is crossed.
DeviationPct(f, actual, status) ==
    IF status = "BELOW_P10" THEN DeviationBelow(f.q10.v, actual.v)
    ELSE IF status = "ABOVE_P90" THEN DeviationAbove(f.q90.v, actual.v)
    ELSE 0

---------------------------------------------------------------------------
(* _compare_metric, lines 444-458: the result row.                         *)

\* round(x) of a float: ValueError for nan, OverflowError for an infinity.
RoundError(x) ==
    IF IsNaN(x) THEN "ValueError"
    ELSE IF ~IsFinite(x) THEN "OverflowError"
    ELSE ""

\* The dict display of lines 444-452 evaluates round(actual),
\* round(point_forecast), round(q10), round(q90) in this order; the first
\* that raises ends the call.  "" when none does.
RowError(f, actual) ==
    IF RoundError(actual) # "" THEN RoundError(actual)
    ELSE IF RoundError(f.point) # "" THEN RoundError(f.point)
    ELSE IF RoundError(f.q10) # "" THEN RoundError(f.q10)
    ELSE RoundError(f.q90)

\* A call that raised: no row is returned.
Raised(column, date, exc) ==
    [exc |-> exc, date |-> date, metric |-> column, actual |-> 0,
     forecast |-> 0, q10 |-> 0, q90 |-> 0, status |-> "",
     deviation_pct |-> 0]

\* The row of lines 444-458 (exc = ""); 'date' is NoDate when the key is
\* left out.
Row(column, date, f, actual) ==
    LET status == Status(f, actual)
    IN  [exc |-> "", date |-> date, metric |-> column,
         actual |-> RoundToInt(actual.v),
         forecast |-> RoundToInt(f.point.v),
         q10 |-> RoundToInt(f.q10.v),
         q90 |-> RoundToInt(f.q90.v),
         status |-> status,
         deviation_pct |-> DeviationPct(f, actual, status)]

\* _compare_metric(column, forecast_value, actual_value, date_value), with
\* forecast_value already split on '|'.
CompareMetricRow(column, parts, actual_cell, date) ==
    LET f == ParseForecast(parts)
        actual == ParseActual(actual_cell)
    IN  IF RowError(f, actual) # ""
        THEN Raised(column, date, RowError(f, actual))
        ELSE Row(column, date, f, actual)

NoResult == Raised("", NoDate, "not called")

---------------------------------------------------------------------------
(* Inputs of _compare_metric.                                              *)

NumericTokens == {Num(n) : n \in -MaxVal..MaxVal}

\* What one field of a forecast cell can hold.
FieldTokens == NumericTokens \cup {NaN, PosInf, NegInf, BadText}

\* What an actual cell can hold.
ActualTokens == NumericTokens \cup {NaN, PosInf, NegInf, BadText, PyNone}

\* Number of fields of the cells drawn: too few, exactly
\* EXPECTED_QUANTILE_COUNT, one more.
CellLens == {1, 2, EXPECTED_QUANTILE_COUNT - 1, EXPECTED_QUANTILE_COUNT,
             EXPECTED_QUANTILE_COUNT + 1}

\* Positions (from 1) where a cell drawn may hold text that is no number,
\* besides the point, q10 and q90 fields; 0 for none.
BadPositions == {0, 5, EXPECTED_QUANTILE_COUNT + 1}

\* A cell of n fields: p, l, u at the point, q10 and q90 positions, text
\* that is no number at position bad, "0" elsewhere.
MkCell(n, p, l, u, bad) ==
    [i \in 1..n |->
        IF i = QUANTILE_POINT_IDX + 1 THEN p
        ELSE IF i = QUANTILE_Q10_IDX + 1 THEN l
        ELSE IF i = QUANTILE_Q90_IDX + 1 THEN u
        ELSE IF i = bad THEN BadText
        ELSE Zero]

Cells ==
    {MkCell(n, p, l, u, bad) :
        n \in CellLens, p \in FieldTokens, l \in FieldTokens,
        u \in FieldTokens, bad \in BadPositions}

\* "1000|900|920|950|975|1000|1025|1050|1080|1100"
ScenarioCell ==
    <<Num(1000 * Scale), Num(900 * Scale), Num(920 * Scale),
      Num(950 * Scale), Num(975 * Scale), Num(1000 * Scale),
      Num(1025 * Scale), Num(1050 * Scale), Num(1080 * Scale),
      Num(1100 * Scale)>>

ScenarioActuals == {Num(600 * Scale), Num(950 * Scale), Num(1150 * Scale)}

Dates == {NoDate, "d1"}

---------------------------------------------------------------------------
(* SpecCompare: one call of _compare_metric.                               *)

WorkflowIdle ==
    /\ method = "run"
    /\ data_writer = "None"
    /\ pre_filters = 0
    /\ post_filters = <<>>
    /\ wf_forecast_df = <<>>
    /\ wf_actual_df = <<>>
    /\ anomaly_df = <<>>
    /\ filter_idx = 0
    /\ calls = <<>>
    /\ wf_error = ""
    /\ returned = <<>>

SplitIdle ==
    /\ dimension_names = <<>>
    /\ dimension_values = <<>>
    /\ metric_column = <<>>
    /\ dimension_columns = <<>>

FilterIdle ==
    /\ exclude_no_forecast = TRUE
    /\ input_df = <<>>
    /\ filtered_once = <<>>
    /\ filtered_twice = <<>>

WriteIdle ==
    /\ writer = <<>>
    /\ fail_at = "none"
    /\ cause = ""
    /\ table_id = <<>>
    /\ job_config = <<>>
    /\ write_error = <<>>

NotifyIdle ==
    /\ notifiers = <<>>
    /\ anomalies_data = ""
    /\ payload = <<>>
    /\ notify_idx = 0
    /\ notify_calls = <<>>
    /\ notify_error = <<>>

StageIdle ==
    /\ stage = <<>>
    /\ stage_input = <<>>
    /\ caller_df = <<>>
    /\ stage_returned = <<>>
    /\ returned_input = FALSE

ActualIdle ==
    /\ transformer_columns = <<>>
    /\ actual_long = <<>>
    /\ metrics_to_keep = <<>>
    /\ filtered_actual = <<>>

DetectIdle ==
    /\ input_types = "both"
    /\ det_forecast_df = <<>>
    /\ actual_df = {}
    /\ forecast_std = <<>>
    /\ actual_std = <<>>
    /\ all_columns = <<>>
    /\ results = <<>>
    /\ error = ""

SelectIdle ==
    /\ forecast_df = <<>>
    /\ threshold_pct = <<1, 1>>
    /\ sort_order = <<>>
    /\ pre_kept = {}
    /\ result_df = <<>>
    /\ post_kept = {}

InitCompare ==
    /\ pc = "start"
    /\ forecast_value \in Cells \cup {ScenarioCell}
    /\ actual_value \in ActualTokens \cup ScenarioActuals
    /\ date_value = NoDate
    /\ result = NoResult
    /\ warned = FALSE
    /\ SelectIdle
    /\ DetectIdle
    /\ ActualIdle
    /\ StageIdle
    /\ NotifyIdle
    /\ WriteIdle
    /\ FilterIdle
    /\ SplitIdle
    /\ WorkflowIdle

CompareMetric ==
    /\ pc = "start"
    /\ \E d \in Dates :
        /\ date_value' = d
        /\ result' = CompareMetricRow("m", forecast_value, actual_value, d)
    /\ warned' = ParseWarns(forecast_value)
    /\ pc' = "compared"
    /\ UNCHANGED <<forecast_value, actual_value>>
    /\ UNCHANGED outsideCompare

NextCompare == CompareMetric

SpecCompare == InitCompare /\ [][NextCompare]_vars

---------------------------------------------------------------------------
(* Tables of the selectors.                                                *)
(*                                                                         *)
(* A forecast table is a sequence of rows; a row maps each metric column   *)
(* to its cell (split on '|').  The 'date' column, which exclude_columns   *)
(* keeps out of every computation, is RowDates[i] for row i.  Shares are   *)
(* compared exactly (cum / total against numerator / denominator), where   *)
(* the code divides floats.                                                *)

\* Metric columns in sorted order (all_columns of line 199).
MetricOrder == <<"a", "b", "c", "d">>

RowDates == <<"d1", "d2">>

Cols(df) == IF Len(df) = 0 THEN {} ELSE DOMAIN df[1]

RECURSIVE SumSeq(_)
SumSeq(s) == IF Len(s) = 0 THEN 0 ELSE s[1] + SumSeq(Tail(s))

\* cumsum()[k] of a sequence of numbers.
CumSum(s, k) == SumSeq(SubSeq(s, 1, k))

\* cum / total <= num / den and cum / total >= num / den, for total # 0
\* and den > 0.
ShareLe(cum, total, th) ==
    IF total > 0 THEN cum * th[2] <= th[1] * total
    ELSE cum * th[2] >= th[1] * total

ShareGe(cum, total, th) ==
    IF total > 0 THEN cum * th[2] >= th[1] * total
    ELSE cum * th[2] <= th[1] * total

---------------------------------------------------------------------------
(* CumulativeThresholdFilter.filter, lines 58-97 (the forecast table).     *)

\* float(str(x).split('|')[0]) of line 67.
PointText(cell) == cell[1]

\* Lines 66-70: the sum of a column's point forecasts, 0.0 when one of its
\* cells raises.  Series.sum() skips nan.
ColumnValue(df, m) ==
    IF \E i \in 1..Len(df) : FloatFails(PointText(df[i][m])) THEN 0
    ELSE SumSeq([i \in 1..Len(df) |->
                    IF IsNaN(PointText(df[i][m])) THEN 0
                    ELSE PointText(df[i][m]).v])

\* forecast_values of lines 62-70.
ForecastValues(df) == [m \in Cols(df) |-> ColumnValue(df, m)]

\* The orders sort_values(ascending=False) of line 76 may give: descending
\* by value; the default sort does not fix the order of equal values.
DescendingOrders(values) ==
    LET n == Cardinality(DOMAIN values)
    IN  {o \in [1..n -> DOMAIN values] :
            /\ \A i, j \in 1..n : i # j => o[i] # o[j]
            /\ \A i, j \in 1..n : i < j => values[o[i]] >= values[o[j]]}

\* threshold_mask of line 88 at rank k: cumulative_pct <= threshold_pct.
PreMask(sorted, total, th, k) ==
    ShareLe(CumSum(sorted, k), total, th)

\* metrics_to_keep of lines 75-93, for the order the sort gave; every
\* metric column when filter() returns its input (lines 72-73, 82-83).
MetricsToKeep(df, th, order) ==
    LET values == ForecastValues(df)
        sorted == [k \in 1..Len(order) |-> values[order[k]]]
        total == SumSeq(sorted)
        kept == {order[k] : k \in {k \in 1..Len(order) :
                                      PreMask(sorted, total, th, k)}}
    IN  IF Cols(df) = {} \/ total = 0 THEN Cols(df)
        ELSE IF kept = {} THEN {order[1]}
        ELSE kept

---------------------------------------------------------------------------
(* detect and _filter_cumulative_threshold (lines 232-255, 504-526).       *)

\* The metric columns of df in sorted order.
SortedCols(df) == SelectSeq(MetricOrder, LAMBDA m : m \in Cols(df))

RECURSIVE Flatten(_)
Flatten(ss) == IF Len(ss) = 0 THEN <<>> ELSE ss[1] \o Flatten(Tail(ss))

\* _compare_all_metrics for an actual table that has a row at every index
\* of the forecast table and 0.0 (the fill value of line 361) for every
\* metric: one result per row and metric column, rows first.
CompareAllMetrics(df) ==
    LET cols == SortedCols(df)
    IN  Flatten([i \in 1..Len(df) |->
                    [j \in 1..Len(cols) |->
                        CompareMetricRow(cols[j], df[i][cols[j]], Zero,
                                         RowDates[i])]])

RECURSIVE InsertDesc(_, _)
InsertDesc(x, s) ==
    IF Len(s) = 0 THEN <<x>>
    ELSE IF x >= s[1] THEN <<x>> \o s
    ELSE <<s[1]>> \o InsertDesc(x, Tail(s))

\* The values of sort_values(ascending=False), line 513.
RECURSIVE SortDesc(_)
SortDesc(s) ==
    IF Len(s) = 0 THEN <<>> ELSE InsertDesc(s[1], SortDesc(Tail(s)))

MinOf(S) == CHOOSE x \in S : \A y \in S : x <= y

\* min_threshold of lines 517-523: the least value up to the first rank
\* whose cumulative share reaches the threshold, the least value of all
\* when no rank does.
MinThreshold(sorted, total, th) ==
    LET hits == {k \in 1..Len(sorted) : ShareGe(CumSum(sorted, k), total, th)}
    IN  IF hits # {}
        THEN MinOf({sorted[k] : k \in 1..MinOf(hits)})
        ELSE MinOf({sorted[k] : k \in 1..Len(sorted)})

\* _filter_cumulative_threshold(df, 'forecast', th): the positions of the
\* rows of the result table rows that are retained.
FilterCumulativeThreshold(rows, th) ==
    LET values == [i \in 1..Len(rows) |-> rows[i].forecast]
        total == SumSeq(values)
    IN  IF Len(rows) = 0 \/ total = 0 THEN 1..Len(rows)
        ELSE LET min_threshold == MinThreshold(SortDesc(values), total, th)
             IN  {i \in 1..Len(rows) : values[i] >= min_threshold}

---------------------------------------------------------------------------
(* SpecSelect: filter() and detect() with cumulative_threshold set, on the *)
(* same forecast table and threshold.                                      *)

SelMetrics == {"a", "b", "c"}

\* Point fields of the tables drawn.
SelTokens == {Num(n) : n \in -1..MaxPoint} \cup {BadText, NaN}

\* The cell "p|p|0|0|0|0|0|0|0|p".
SelCell(p) == MkCell(EXPECTED_QUANTILE_COUNT, p, p, p, 0)

\* Tables of one row, and tables whose second row holds 1.0 or text.
SelTables ==
    {<<r>> : r \in [SelMetrics -> {SelCell(p) : p \in SelTokens}]}
    \cup {<<r1, r2>> :
            r1 \in [SelMetrics -> {SelCell(p) : p \in SelTokens}],
            r2 \in [SelMetrics -> {SelCell(Num(Scale)), SelCell(BadText)}]}

\* Forecast volumes {a: 5000, b: 3000, c: 100, d: 50}.
ScenarioTable ==
    <<[m \in {"a", "b", "c", "d"} |->
        SelCell(Num(Scale * (CASE m = "a" -> 5000 [] m = "b" -> 3000
                             [] m = "c" -> 100 [] OTHER -> 50)))]>>

\* threshold_pct in (0, 1]: 0.5, 0.95, 1.0.
Thresholds == {<<1, 2>>, <<19, 20>>, <<1, 1>>}

CompareIdle ==
    /\ forecast_value = <<>>
    /\ actual_value = Zero
    /\ date_value = NoDate
    /\ result = NoResult
    /\ warned = FALSE

InitSelect ==
    /\ pc = "start"
    /\ forecast_df \in SelTables \cup {ScenarioTable}
    /\ threshold_pct \in Thresholds
    /\ sort_order = <<>>
    /\ pre_kept = {}
    /\ result_df = <<>>
    /\ post_kept = {}
    /\ CompareIdle
    /\ DetectIdle
    /\ ActualIdle
    /\ StageIdle
    /\ NotifyIdle
    /\ WriteIdle
    /\ FilterIdle
    /\ SplitIdle
    /\ WorkflowIdle

\* CumulativeThresholdFilter.filter(forecast_df, actual_df) for a non-empty
\* actual_df: the metric columns of the filtered forecast.
PreFilter ==
    /\ pc = "start"
    /\ \E order \in DescendingOrders(ForecastValues(forecast_df)) :
        /\ sort_order' = order
        /\ pre_kept' = MetricsToKeep(forecast_df, threshold_pct, order)
    /\ pc' = "filtered"
    /\ UNCHANGED <<forecast_df, threshold_pct, result_df, post_kept>>
    /\ UNCHANGED outsideSelect

\* ForecastActualComparator.detect with cumulative_threshold = threshold_pct
\* on the same forecast table: a comparison that raises ends detect.
Detect ==
    /\ pc = "filtered"
    /\ \E rows \in {CompareAllMetrics(forecast_df)} :
        IF \E i \in 1..Len(rows) : rows[i].exc # ""
        THEN /\ pc' = "detect_raised"
             /\ UNCHANGED <<result_df, post_kept>>
        ELSE /\ pc' = "selected"
             /\ result_df' = rows
             /\ post_kept' = FilterCumulativeThreshold(rows, threshold_pct)
    /\ UNCHANGED <<forecast_df, threshold_pct, sort_order, pre_kept>>
    /\ UNCHANGED outsideSelect

NextSelect == PreFilter \/ Detect

SpecSelect == InitSelect /\ [][NextSelect]_vars

---------------------------------------------------------------------------
(* ForecastActualComparator.detect with its default configuration (no      *)
(* dimension names, no cumulative threshold, every status returned).       *)
(*                                                                         *)
(* The forecast table is a sequence of rows, row i carrying index label    *)
(* i - 1 (the RangeIndex of a table as a reader returns it); a row holds   *)
(* its date and its metric cells.  The actual table is in long format: a   *)
(* set of records of date, metric key and value, at most one per date and  *)
(* metric key.                                                             *)

DetDates == {RowDates[i] : i \in DOMAIN RowDates}

\* Metric columns a forecast table may have, metric keys an actual table
\* may have.
ForecastKeys == {"a", "b"}
ActualKeys == {"b", "c"}

\* The fill value of line 343, '0|0|0|0|0|0|0|0|0|0', split on '|'.
NeutralQuantiles ==
    <<Zero, Zero, Zero, Zero, Zero, Zero, Zero, Zero, Zero, Zero>>

\* Forecast cells: "0|0|0|0|0|0|0|0|0|0", "2|1|0|0|0|0|0|0|0|3" and
\* "nan|nan|0|0|0|0|0|0|0|nan".
DetCells ==
    {NeutralQuantiles,
     MkCell(EXPECTED_QUANTILE_COUNT, Num(2 * Scale), Num(Scale),
            Num(3 * Scale), 0),
     SelCell(NaN)}

\* Actual values: 2.0 and 4.0.
DetValues == {Num(2 * Scale), Num(4 * Scale)}

DetForecastRows(C) == [date : DetDates, cells : [C -> DetCells]]

\* Forecast tables of no row, one row and two rows.
DetForecastTables ==
    {<<>>} \cup
    UNION {{<<r>> : r \in DetForecastRows(C)}
           \cup {<<r1, r2>> : r1 \in DetForecastRows(C),
                              r2 \in DetForecastRows(C)} :
           C \in SUBSET ForecastKeys}

DetActualTables ==
    {t \in SUBSET [date : DetDates, metric : ActualKeys, value : DetValues] :
        \A r1, r2 \in t :
            (r1.date = r2.date /\ r1.metric = r2.metric) => r1 = r2}

\* The metric columns of a forecast table (line 195).
ForecastCols(df) == IF Len(df) = 0 THEN {} ELSE DOMAIN df[1].cells

\* transformer.pivot_table(actual_df).reset_index(): one row per time key
\* of the long table, in ascending order of time key, labelled 0, 1, ...;
\* one column per metric key; a cell no record gives is missing (nan).
PivotColumns(long) == {r.metric : r \in long}

PivotCell(long, d, k) ==
    IF \E r \in long : r.date = d /\ r.metric = k
    THEN (CHOOSE r \in long : r.date = d /\ r.metric = k).value
    ELSE NaN

PivotTable(long) ==
    LET keys == SelectSeq(RowDates, LAMBDA d : \E r \in long : r.date = d)
    IN  [i \in 1..Len(keys) |->
            [date |-> keys[i],
             cells |-> [k \in PivotColumns(long) |->
                            PivotCell(long, keys[i], k)]]]

\* Mutant of AllColumns: the metric columns of the forecast only.
AllColumnsForecastOnly(forecast_cols, actual_cols) ==
    SelectSeq(MetricOrder, LAMBDA m : m \in forecast_cols)

\* all_columns of line 199: the sorted union of the metric columns.
AllColumns(forecast_cols, actual_cols) ==
    SelectSeq(MetricOrder, LAMBDA m : m \in forecast_cols \cup actual_cols)

Range(s) == {s[i] : i \in DOMAIN s}

\* _standardize_forecast_columns: a column the table lacks is added with
\* the neutral quantile string.
StandardizeForecast(df, cols) ==
    [i \in 1..Len(df) |->
        [date |-> df[i].date,
         cells |-> [k \in Range(cols) |->
                        IF k \in DOMAIN df[i].cells THEN df[i].cells[k]
                        ELSE NeutralQuantiles]]]

\* _standardize_actual_columns: a column the table lacks is added with 0.0
\* and a missing cell is filled with 0.0.
StandardizeActual(df, cols) ==
    [i \in 1..Len(df) |->
        [date |-> df[i].date,
         cells |-> [k \in Range(cols) |->
                        IF k \in DOMAIN df[i].cells /\ ~IsNaN(df[i].cells[k])
                        THEN df[i].cells[k]
                        ELSE Zero]]]

\* _compare_all_metrics: for each index label of the forecast table that is
\* also an index label of the actual table, one comparison per column of
\* all_columns; idx is the position of the forecast row.
CompareAllRows(fstd, astd, cols) ==
    Flatten([i \in 1..Len(fstd) |->
                IF i <= Len(astd)
                THEN [j \in 1..Len(cols) |->
                        [idx |-> i,
                         row |-> CompareMetricRow(cols[j],
                                                  fstd[i].cells[cols[j]],
                                                  astd[i].cells[cols[j]],
                                                  fstd[i].date)]]
                ELSE <<>>])

InitDetect ==
    /\ pc = "start"
    /\ input_types \in {"both", "forecast_not_df", "actual_not_df", "neither"}
    /\ det_forecast_df \in
            IF input_types \in {"both", "actual_not_df"}
            THEN DetForecastTables ELSE {<<>>}
    /\ actual_df \in
            IF input_types \in {"both", "forecast_not_df"}
            THEN DetActualTables ELSE {{}}
    /\ forecast_std = <<>>
    /\ actual_std = <<>>
    /\ all_columns = <<>>
    /\ results = <<>>
    /\ error = ""
    /\ CompareIdle
    /\ SelectIdle
    /\ ActualIdle
    /\ StageIdle
    /\ NotifyIdle
    /\ WriteIdle
    /\ FilterIdle
    /\ SplitIdle
    /\ WorkflowIdle

\* Mutant of ValidateInputs: the actual table is tested for emptiness before
\* the forecast table.
ValidateInputsActualFirst ==
    /\ pc = "start"
    /\ IF input_types \in {"forecast_not_df", "neither"}
       THEN pc' = "raised" /\ error' = "TypeError: forecast_df"
       ELSE IF input_types = "actual_not_df"
       THEN pc' = "raised" /\ error' = "TypeError: actual_df"
       ELSE IF actual_df = {}
       THEN pc' = "raised" /\ error' = "ValueError: Actual DataFrame is empty"
       ELSE IF Len(det_forecast_df) = 0
       THEN pc' = "raised" /\ error' = "ValueError: Forecast DataFrame is empty"
       ELSE pc' = "validated" /\ error' = ""
    /\ UNCHANGED <<input_types, det_forecast_df, actual_df, forecast_std,
                   actual_std, all_columns, results>>
    /\ UNCHANGED outsideDetect

\* _validate_inputs, lines 162-173.
ValidateInputs ==
    /\ pc = "start"
    /\ IF input_types \in {"forecast_not_df", "neither"}
       THEN pc' = "raised" /\ error' = "TypeError: forecast_df"
       ELSE IF input_types = "actual_not_df"
       THEN pc' = "raised" /\ error' = "TypeError: actual_df"
       ELSE IF Len(det_forecast_df) = 0
       THEN pc' = "raised" /\ error' = "ValueError: Forecast DataFrame is empty"
       ELSE IF actual_df = {}
       THEN pc' = "raised" /\ error' = "ValueError: Actual DataFrame is empty"
       ELSE pc' = "validated" /\ error' = ""
    /\ UNCHANGED <<input_types, det_forecast_df, actual_df, forecast_std,
                   actual_std, all_columns, results>>
    /\ UNCHANGED outsideDetect

\* _prepare_data, lines 191-213.
PrepareData ==
    /\ pc = "validated"
    /\ \E cols \in {AllColumns(ForecastCols(det_forecast_df),
                               PivotColumns(actual_df))} :
        /\ all_columns' = cols
        /\ forecast_std' = StandardizeForecast(det_forecast_df, cols)
        /\ actual_std' = StandardizeActual(PivotTable(actual_df), cols)
    /\ pc' = "prepared"
    /\ UNCHANGED <<input_types, det_forecast_df, actual_df, results, error>>
    /\ UNCHANGED outsideDetect

\* _compare_all_metrics and lines 138-147: the rows detect returns; a
\* comparison that raises ends detect.
CompareAll ==
    /\ pc = "prepared"
    /\ \E rows \in {CompareAllRows(forecast_std, actual_std, all_columns)} :
        IF \E j \in 1..Len(rows) : rows[j].row.exc # ""
        THEN /\ pc' = "raised"
             /\ error' = rows[CHOOSE j \in 1..Len(rows) :
                                /\ rows[j].row.exc # ""
                                /\ \A h \in 1..(j - 1) : rows[h].row.exc = ""
                             ].row.exc
             /\ UNCHANGED results
        ELSE /\ pc' = "detected"
             /\ results' = rows
             /\ UNCHANGED error
    /\ UNCHANGED <<input_types, det_forecast_df, actual_df, forecast_std,
                   actual_std, all_columns>>
    /\ UNCHANGED outsideDetect

NextDetect == ValidateInputs \/ PrepareData \/ CompareAll

SpecDetect == InitDetect /\ [][NextDetect]_vars

---------------------------------------------------------------------------
(* Tables handed from stage to stage, and the AnomalyFilter post-filter.   *)
(*                                                                         *)
(* A table is None or a DataFrame; a DataFrame is the sequence of its rows *)
(* and whether it has a 'status' column.  A row of a result table is its   *)
(* index label and its status; a row of a forecast or actual table is a    *)
(* name.                                                                   *)

NoneTable == [none |-> TRUE, has_status |-> FALSE, rows |-> <<>>]

Table(rows, has_status) ==
    [none |-> FALSE, has_status |-> has_status, rows |-> rows]

\* df.empty
Empty(df) == Len(df.rows) = 0

\* df is None or df.empty
NoneOrEmpty(df) == df.none \/ Empty(df)

ResultRow(idx, status) == [idx |-> idx, status |-> status]

\* Mutant of AnomalyFilterProcess: the first row is dropped as well.
AnomalyFilterDropsFirst(exclude, results_df) ==
    IF Empty(results_df) \/ ~results_df.has_status THEN results_df
    ELSE [results_df EXCEPT
            !.rows = SelectSeq(Tail(results_df.rows),
                               LAMBDA r :
                                   r.status \in {"BELOW_P10", "ABOVE_P90"})]

\* AnomalyFilter(exclude_no_forecast = exclude).process(results_df), lines
\* 37-43: the rows of status BELOW_P10 or ABOVE_P90, with their index
\* labels; exclude_no_forecast is not read.
AnomalyFilterProcess(exclude, results_df) ==
    IF Empty(results_df) \/ ~results_df.has_status THEN results_df
    ELSE [results_df EXCEPT
            !.rows = SelectSeq(results_df.rows,
                               LAMBDA r :
                                   r.status \in {"BELOW_P10", "ABOVE_P90"})]

---------------------------------------------------------------------------
(* AnomalyDetectionWorkflow.run and run_without_output.                    *)
(*                                                                         *)
(* The readers, the pre-filters, the detector and the writer are the       *)
(* workflow's collaborators: what each returns is chosen when it is        *)
(* called.  A post-filter is an AnomalyFilter or some other PostFilter,    *)
(* which returns its input or its input without the last row.  calls       *)
(* records every call made on a collaborator: the operation, the position  *)
(* of the filter in its list (0 for the others), the arguments, what was   *)
(* returned and whether the call raised.                                   *)

\* The largest number of pre-filters, and of post-filters, configured.
MaxFilters == 2

Call(op, who, arg, ret, raised) ==
    [op |-> op, who |-> who, arg |-> arg, ret |-> ret, raised |-> raised]

\* No argument, or nothing returned.
Nothing == <<NoneTable, NoneTable>>

One(df) == <<df, NoneTable>>

\* What a reader may return: None, an empty table, a table of one row or
\* of two rows.
ForecastLoads ==
    {NoneTable, Table(<<>>, FALSE), Table(<<"f0">>, FALSE),
     Table(<<"f0", "f1">>, FALSE)}

ActualLoads ==
    {NoneTable, Table(<<>>, FALSE), Table(<<"a0">>, FALSE),
     Table(<<"a0", "a1">>, FALSE)}

\* df without its last row.
DropLast(df) ==
    IF Empty(df) THEN df
    ELSE [df EXCEPT !.rows = SubSeq(df.rows, 1, Len(df.rows) - 1)]

\* What a pre-filter may return for (forecast_df, actual_df): the pair it
\* was given, both tables reduced, or the forecast with an actual table
\* emptied (lines 58-59 and 137-148 of cumulative_threshold.py).
PreFilterReturns(f, a) ==
    {<<f, a>>, <<DropLast(f), DropLast(a)>>, <<f, [a EXCEPT !.rows = <<>>]>>}

\* What the detector may return: None, an empty table (line 140 of
\* forecast_actual.py), or result rows.
DetectReturns ==
    {NoneTable, Table(<<>>, FALSE),
     Table(<<ResultRow(0, "IN_RANGE")>>, TRUE),
     Table(<<ResultRow(0, "BELOW_P10")>>, TRUE),
     Table(<<ResultRow(0, "IN_RANGE"), ResultRow(1, "ABOVE_P90")>>, TRUE)}

PostFilterKinds == {"AnomalyFilter", "PostFilter"}

\* What the post-filter of the given kind may return for df.
PostFilterReturns(kind, df) ==
    IF kind = "AnomalyFilter" THEN {AnomalyFilterProcess(TRUE, df)}
    ELSE {df, DropLast(df)}

PostFilterLists ==
    UNION {[1..n -> PostFilterKinds] : n \in 0..MaxFilters}

InitWorkflow ==
    /\ pc = "start"
    /\ method \in {"run", "run_without_output"}
    /\ data_writer \in {"writer", "None"}
    /\ pre_filters \in 0..MaxFilters
    /\ post_filters \in PostFilterLists
    /\ wf_forecast_df = NoneTable
    /\ wf_actual_df = NoneTable
    /\ anomaly_df = NoneTable
    /\ filter_idx = 0
    /\ calls = <<>>
    /\ wf_error = ""
    /\ returned = NoneTable
    /\ SelectIdle
    /\ CompareIdle
    /\ DetectIdle
    /\ ActualIdle
    /\ StageIdle
    /\ NotifyIdle
    /\ WriteIdle
    /\ FilterIdle
    /\ SplitIdle

\* Lines 82-88: the forecast is loaded and checked.
LoadForecast ==
    /\ pc = "start"
    /\ \E df \in ForecastLoads :
        /\ calls' = Append(calls, Call("forecast_reader.load", 0, Nothing,
                                       One(df), FALSE))
        /\ wf_forecast_df' = df
        /\ IF NoneOrEmpty(df)
           THEN /\ pc' = "failed"
                /\ wf_error' = "ValueError: Forecast reader returned empty dataset. Cannot proceed with anomaly detection."
           ELSE /\ pc' = "forecast_loaded"
                /\ UNCHANGED wf_error
    /\ UNCHANGED <<method, data_writer, pre_filters, post_filters,
                   wf_actual_df, anomaly_df, filter_idx, returned>>
    /\ UNCHANGED outsideWorkflow

\* Mutant of LoadActual: what the actual reader returns is not checked.
LoadActualUnchecked ==
    /\ pc = "forecast_loaded"
    /\ \E df \in ActualLoads :
        /\ calls' = Append(calls, Call("actual_reader.load", 0, Nothing,
                                       One(df), FALSE))
        /\ wf_actual_df' = df
    /\ pc' = "actual_loaded"
    /\ filter_idx' = 1
    /\ UNCHANGED <<method, data_writer, pre_filters, post_filters,
                   wf_forecast_df, anomaly_df, wf_error, returned>>
    /\ UNCHANGED outsideWorkflow

\* Lines 91-97: the actual data is loaded and checked.
LoadActual ==
    /\ pc = "forecast_loaded"
    /\ \E df \in ActualLoads :
        /\ calls' = Append(calls, Call("actual_reader.load", 0, Nothing,
                                       One(df), FALSE))
        /\ wf_actual_df' = df
        /\ IF NoneOrEmpty(df)
           THEN /\ pc' = "failed"
                /\ wf_error' = "ValueError: Actual reader returned empty dataset. Cannot proceed with anomaly detection."
                /\ UNCHANGED filter_idx
           ELSE /\ pc' = "actual_loaded"
                /\ filter_idx' = 1
                /\ UNCHANGED wf_error
    /\ UNCHANGED <<method, data_writer, pre_filters, post_filters,
                   wf_forecast_df, anomaly_df, returned>>
    /\ UNCHANGED outsideWorkflow

\* Mutant of ApplyPreFilter: what the pre-filter returns is dropped.
ApplyPreFilterDropsResult ==
    /\ pc = "actual_loaded"
    /\ filter_idx <= pre_filters
    /\ \E pair \in PreFilterReturns(wf_forecast_df, wf_actual_df) :
        /\ calls' = Append(calls, Call("pre_filter.filter", filter_idx,
                                       <<wf_forecast_df, wf_actual_df>>,
                                       pair, FALSE))
        /\ UNCHANGED <<wf_forecast_df, wf_actual_df>>
    /\ filter_idx' = filter_idx + 1
    /\ UNCHANGED <<pc, method, data_writer, pre_filters, post_filters,
                   anomaly_df, wf_error, returned>>
    /\ UNCHANGED outsideWorkflow

\* Lines 100-101: one turn of the pre-filter loop.
ApplyPreFilter ==
    /\ pc = "actual_loaded"
    /\ filter_idx <= pre_filters
    /\ \E pair \in PreFilterReturns(wf_forecast_df, wf_actual_df) :
        /\ calls' = Append(calls, Call("pre_filter.filter", filter_idx,
                                       <<wf_forecast_df, wf_actual_df>>,
                                       pair, FALSE))
        /\ wf_forecast_df' = pair[1]
        /\ wf_actual_df' = pair[2]
    /\ filter_idx' = filter_idx + 1
    /\ UNCHANGED <<pc, method, data_writer, pre_filters, post_filters,
                   anomaly_df, wf_error, returned>>
    /\ UNCHANGED outsideWorkflow

\* Mutant of DetectAnomalies: only a None result is refused.
DetectAnomaliesNoneOnly ==
    /\ pc = "actual_loaded"
    /\ filter_idx > pre_filters
    /\ \/ /\ calls' = Append(calls, Call("anomaly_detector.detect", 0,
                                         <<wf_forecast_df, wf_actual_df>>,
                                         Nothing, TRUE))
          /\ pc' = "failed"
          /\ wf_error' = "raised by anomaly_detector.detect"
          /\ UNCHANGED <<anomaly_df, filter_idx>>
       \/ \E df \in DetectReturns :
            /\ calls' = Append(calls, Call("anomaly_detector.detect", 0,
                                           <<wf_forecast_df, wf_actual_df>>,
                                           One(df), FALSE))
            /\ anomaly_df' = df
            /\ IF df.none
               THEN /\ pc' = "failed"
                    /\ wf_error' = "ValueError: Anomaly detector returned empty results. Check your data and configuration."
                    /\ UNCHANGED filter_idx
               ELSE /\ pc' = "anomalies"
                    /\ filter_idx' = 1
                    /\ UNCHANGED wf_error
    /\ UNCHANGED <<method, data_writer, pre_filters, post_filters,
                   wf_forecast_df, wf_actual_df, returned>>
    /\ UNCHANGED outsideWorkflow

\* Lines 104-113: the detector is called on the current pair, once the
\* pre-filter loop has ended, and its result is checked; the detector may
\* raise.
DetectAnomalies ==
    /\ pc = "actual_loaded"
    /\ filter_idx > pre_filters
    /\ \/ /\ calls' = Append(calls, Call("anomaly_detector.detect", 0,
                                         <<wf_forecast_df, wf_actual_df>>,
                                         Nothing, TRUE))
          /\ pc' = "failed"
          /\ wf_error' = "raised by anomaly_detector.detect"
          /\ UNCHANGED <<anomaly_df, filter_idx>>
       \/ \E df \in DetectReturns :
            /\ calls' = Append(calls, Call("anomaly_detector.detect", 0,
                                           <<wf_forecast_df, wf_actual_df>>,
                                           One(df), FALSE))
            /\ anomaly_df' = df
            /\ IF NoneOrEmpty(df)
               THEN /\ pc' = "failed"
                    /\ wf_error' = "ValueError: Anomaly detector returned empty results. Check your data and configuration."
                    /\ UNCHANGED filter_idx
               ELSE /\ pc' = "anomalies"
                    /\ filter_idx' = 1
                    /\ UNCHANGED wf_error
    /\ UNCHANGED <<method, data_writer, pre_filters, post_filters,
                   wf_forecast_df, wf_actual_df, returned>>
    /\ UNCHANGED outsideWorkflow

\* Lines 116-117: one turn of the post-filter loop.
ApplyPostFilter ==
    /\ pc = "anomalies"
    /\ filter_idx <= Len(post_filters)
    /\ \E df \in PostFilterReturns(post_filters[filter_idx], anomaly_df) :
        /\ calls' = Append(calls, Call("post_filter.process", filter_idx,
                                       One(anomaly_df), One(df), FALSE))
        /\ anomaly_df' = df
    /\ filter_idx' = filter_idx + 1
    /\ UNCHANGED <<pc, method, data_writer, pre_filters, post_filters,
                   wf_forecast_df, wf_actual_df, wf_error, returned>>
    /\ UNCHANGED outsideWorkflow

\* run, lines 130-133, once _execute_detection has returned: the table is
\* written and returned.  With data_writer None, self.data_writer.write
\* raises AttributeError; the writer may raise.
WriteAndReturn ==
    /\ pc = "anomalies"
    /\ filter_idx > Len(post_filters)
    /\ method = "run"
    /\ IF data_writer = "None"
       THEN /\ pc' = "failed"
            /\ wf_error' = "AttributeError: 'NoneType' object has no attribute 'write'"
            /\ UNCHANGED <<calls, returned>>
       ELSE \/ /\ calls' = Append(calls, Call("data_writer.write", 0,
                                              One(anomaly_df), Nothing,
                                              FALSE))
               /\ pc' = "returned"
               /\ returned' = anomaly_df
               /\ UNCHANGED wf_error
            \/ /\ calls' = Append(calls, Call("data_writer.write", 0,
                                              One(anomaly_df), Nothing,
                                              TRUE))
               /\ pc' = "failed"
               /\ wf_error' = "raised by data_writer.write"
               /\ UNCHANGED returned
    /\ UNCHANGED <<method, data_writer, pre_filters, post_filters,
                   wf_forecast_df, wf_actual_df, anomaly_df, filter_idx>>
    /\ UNCHANGED outsideWorkflow

\* run_without_output, line 147: the table is returned, nothing is written.
ReturnWithoutOutput ==
    /\ pc = "anomalies"
    /\ filter_idx > Len(post_filters)
    /\ method = "run_without_output"
    /\ pc' = "returned"
    /\ returned' = anomaly_df
    /\ UNCHANGED <<method, data_writer, pre_filters, post_filters,
                   wf_forecast_df, wf_actual_df, anomaly_df, filter_idx,
                   calls, wf_error>>
    /\ UNCHANGED outsideWorkflow

NextWorkflow ==
    \/ LoadForecast
    \/ LoadActual
    \/ ApplyPreFilter
    \/ DetectAnomalies
    \/ ApplyPostFilter
    \/ WriteAndReturn
    \/ ReturnWithoutOutput

SpecWorkflow == InitWorkflow /\ [][NextWorkflow]_vars

---------------------------------------------------------------------------
(* ForecastActualComparator._split_metric_to_dimensions.                   *)
(*                                                                         *)
(* A text (a dimension value, a metric key) is the sequence of its         *)
(* characters.  A cell of a dimension column is a text or None.            *)

\* The largest number of dimension names configured.
MaxDims == 2

NamePool == <<"platform", "channel", "landing_page", "device", "country">>

\* Raw dimension values: "", "x", "Y", "-", "x_Y".
RawValues == {<<>>, <<"x">>, <<"Y">>, <<"-">>, <<"x", "_", "Y">>}

\* The pivoter's sanitization of one character: letters and digits are
\* lower-cased, every other character is stripped.
IsAlnum(c) == c \in {"x", "y", "Y"}
Lower(c) == IF c = "Y" THEN "y" ELSE c

RECURSIVE Sanitize(_)
Sanitize(text) ==
    IF Len(text) = 0 THEN <<>>
    ELSE IF IsAlnum(Head(text))
         THEN <<Lower(Head(text))>> \o Sanitize(Tail(text))
         ELSE Sanitize(Tail(text))

\* '_'.join(parts)
RECURSIVE JoinUnderscore(_)
JoinUnderscore(parts) ==
    IF Len(parts) = 0 THEN <<>>
    ELSE IF Len(parts) = 1 THEN parts[1]
    ELSE parts[1] \o <<"_">> \o JoinUnderscore(Tail(parts))

\* The metric key the pivoter makes of the dimension values of a row.
MetricKey(values) ==
    JoinUnderscore([i \in 1..Len(values) |-> Sanitize(values[i])])

\* Mutant of SplitUnderscore: empty parts are left out, as split() without
\* a separator does.
RECURSIVE SplitSkipsEmpty(_)
SplitSkipsEmpty(text) ==
    IF Len(text) = 0 THEN <<>>
    ELSE IF Head(text) = "_" THEN SplitSkipsEmpty(Tail(text))
    ELSE LET rest == SplitSkipsEmpty(Tail(text))
         IN  IF Len(text) > 1 /\ text[2] # "_"
             THEN <<<<Head(text)>> \o rest[1]>> \o Tail(rest)
             ELSE <<<<Head(text)>>>> \o rest

\* text.split('_') of line 476: the parts between the underscores, empty
\* parts included.
RECURSIVE SplitUnderscore(_)
SplitUnderscore(text) ==
    IF Len(text) = 0 THEN <<<<>>>>
    ELSE LET rest == SplitUnderscore(Tail(text))
         IN  IF Head(text) = "_" THEN <<<<>>>> \o rest
             ELSE <<<<Head(text)>> \o rest[1]>> \o Tail(rest)

Text(t) == [null |-> FALSE, text |-> t]
Null == [null |-> TRUE, text |-> <<>>]

MaxOf(S) == CHOOSE x \in S : \A y \in S : y <= x

\* df['metric'].str.split('_', expand=True): one column per part position
\* up to the largest number of parts of a key, None where a key has fewer.
SplitExpand(keys) ==
    LET parts == [r \in 1..Len(keys) |-> SplitUnderscore(keys[r])]
        width == MaxOf({Len(parts[r]) : r \in 1..Len(keys)})
    IN  [r \in 1..Len(keys) |->
            [i \in 1..width |->
                IF i <= Len(parts[r]) THEN Text(parts[r][i]) ELSE Null]]

\* Lines 476-483: column i of the split for the i-th dimension name, None
\* when the split has no such column.
SplitMetricToDimensions(keys, names) ==
    LET metric_parts == SplitExpand(keys)
    IN  [r \in 1..Len(keys) |->
            [i \in 1..Len(names) |->
                IF i <= Len(metric_parts[r]) THEN metric_parts[r][i]
                ELSE Null]]

\* Metric keys of the other rows of the table: "x", "", "_", "x_y",
\* "x_y_x_y".
OtherKeys ==
    {<<"x">>, <<>>, <<"_">>, <<"x", "_", "y">>,
     <<"x", "_", "y", "_", "x", "_", "y">>}

\* Row 1 holds the key of dimension_values; a second row, if any, holds
\* another key.
InitSplit ==
    /\ pc = "start"
    /\ \E n \in 1..MaxDims :
        /\ dimension_names = SubSeq(NamePool, 1, n)
        /\ dimension_values \in [1..n -> RawValues]
    /\ metric_column \in
            {<<MetricKey(dimension_values)>>}
            \cup {<<MetricKey(dimension_values), k>> : k \in OtherKeys}
    /\ dimension_columns = <<>>
    /\ SelectIdle
    /\ CompareIdle
    /\ DetectIdle
    /\ ActualIdle
    /\ StageIdle
    /\ NotifyIdle
    /\ WriteIdle
    /\ FilterIdle
    /\ WorkflowIdle

\* _split_metric_to_dimensions on a table that has a 'metric' column.
SplitMetric ==
    /\ pc = "start"
    /\ dimension_columns' =
            SplitMetricToDimensions(metric_column, dimension_names)
    /\ pc' = "split"
    /\ UNCHANGED <<dimension_names, dimension_values, metric_column>>
    /\ UNCHANGED outsideSplit

NextSplit == SplitMetric

SpecSplit == InitSplit /\ [][NextSplit]_vars

---------------------------------------------------------------------------
(* AnomalyFilter.process, applied to a result table and then to its own    *)
(* output.                                                                 *)

\* The largest number of rows of the result tables drawn.
MaxRows == 3

Statuses == {"IN_RANGE", "BELOW_P10", "ABOVE_P90", "NO_FORECAST"}

\* Result tables with a 'status' column, rows labelled 0, 1, ..., and
\* tables without one (the status of their rows is "").
ResultTables ==
    UNION {{Table([i \in 1..n |-> ResultRow(i - 1, st[i])], TRUE) :
                st \in [1..n -> Statuses]} : n \in 0..MaxRows}
    \cup {Table([i \in 1..n |-> ResultRow(i - 1, "")], FALSE) :
                n \in 0..MaxRows}

InitFilter ==
    /\ pc = "start"
    /\ exclude_no_forecast \in BOOLEAN
    /\ input_df \in ResultTables
    /\ filtered_once = NoneTable
    /\ filtered_twice = NoneTable
    /\ SelectIdle
    /\ CompareIdle
    /\ DetectIdle
    /\ ActualIdle
    /\ StageIdle
    /\ NotifyIdle
    /\ WriteIdle
    /\ WorkflowIdle
    /\ SplitIdle

\* AnomalyFilter(exclude_no_forecast).process(input_df)
ProcessOnce ==
    /\ pc = "start"
    /\ filtered_once' = AnomalyFilterProcess(exclude_no_forecast, input_df)
    /\ pc' = "once"
    /\ UNCHANGED <<exclude_no_forecast, input_df, filtered_twice>>
    /\ UNCHANGED outsideFilter

\* The same filter's process on what it returned.
ProcessTwice ==
    /\ pc = "once"
    /\ filtered_twice' =
            AnomalyFilterProcess(exclude_no_forecast, filtered_once)
    /\ pc' = "twice"
    /\ UNCHANGED <<exclude_no_forecast, input_df, filtered_once>>
    /\ UNCHANGED outsideFilter

NextFilter == ProcessOnce \/ ProcessTwice

SpecFilter == InitFilter /\ [][NextFilter]_vars

---------------------------------------------------------------------------
(* SpecConstruct: a selector is constructed with a threshold, valid or     *)
(* not, and then run on a forecast table.                                  *)

\* Thresholds outside (0, 1]: 0, -0.5 and 1.5.
InvalidThresholds == {<<0, 1>>, <<-1, 2>>, <<3, 2>>}

\* 0 < threshold_pct <= 1.0 of cumulative_threshold.py line 40.
ValidThreshold(th) == 0 < th[1] /\ th[1] <= th[2]

\* CumulativeThresholdFilter.__init__(threshold_pct = th), lines 34-45: the
\* ValueError of line 41, or the filter.
FilterInit(th) ==
    IF ~ValidThreshold(th) THEN "filter_rejected" ELSE "filter_constructed"

\* ForecastActualComparator.__init__(cumulative_threshold = th), lines
\* 47-69: the threshold is stored as it is.
ComparatorInit(th) == "comparator_constructed"

\* One-row forecast tables and the scenario's.
ConstructTables ==
    {<<r>> : r \in [SelMetrics -> {SelCell(p) : p \in SelTokens}]}
    \cup {ScenarioTable}

InitConstruct ==
    /\ pc = "start"
    /\ forecast_df \in ConstructTables
    /\ threshold_pct \in Thresholds \cup InvalidThresholds
    /\ sort_order = <<>>
    /\ pre_kept = {}
    /\ result_df = <<>>
    /\ post_kept = {}
    /\ CompareIdle
    /\ DetectIdle
    /\ ActualIdle
    /\ StageIdle
    /\ NotifyIdle
    /\ WriteIdle
    /\ FilterIdle
    /\ SplitIdle
    /\ WorkflowIdle

\* CumulativeThresholdFilter(transformer, threshold_pct)
ConstructFilter ==
    /\ pc = "start"
    /\ pc' = FilterInit(threshold_pct)
    /\ UNCHANGED selectVars
    /\ UNCHANGED outsideSelect

\* ForecastActualComparator(transformer, cumulative_threshold = threshold_pct)
ConstructComparator ==
    /\ pc = "start"
    /\ pc' = ComparatorInit(threshold_pct)
    /\ UNCHANGED selectVars
    /\ UNCHANGED outsideSelect

\* filter(forecast_df, actual_df) of the filter constructed.
RunFilter ==
    /\ pc = "filter_constructed"
    /\ \E order \in DescendingOrders(ForecastValues(forecast_df)) :
        /\ sort_order' = order
        /\ pre_kept' = MetricsToKeep(forecast_df, threshold_pct, order)
    /\ pc' = "filter_ran"
    /\ UNCHANGED <<forecast_df, threshold_pct, result_df, post_kept>>
    /\ UNCHANGED outsideSelect

\* detect(forecast_df, actual_df) of the comparator constructed, lines
\* 272-277: _filter_cumulative_threshold runs with the threshold stored.
RunComparator ==
    /\ pc = "comparator_constructed"
    /\ \E rows \in {CompareAllMetrics(forecast_df)} :
        IF \E i \in 1..Len(rows) : rows[i].exc # ""
        THEN /\ pc' = "detect_raised"
             /\ UNCHANGED <<result_df, post_kept>>
        ELSE /\ pc' = "comparator_ran"
             /\ result_df' = rows
             /\ post_kept' = FilterCumulativeThreshold(rows, threshold_pct)
    /\ UNCHANGED <<forecast_df, threshold_pct, sort_order, pre_kept>>
    /\ UNCHANGED outsideSelect

NextConstruct ==
    ConstructFilter \/ ConstructComparator \/ RunFilter \/ RunComparator

SpecConstruct == InitConstruct /\ [][NextConstruct]_vars

---------------------------------------------------------------------------
(* SpecWrite: BigQueryDataWriter.write, lines 110-170.  The client, the    *)
(* submission of the load job and the job itself may each raise.           *)

\* The writers constructed: project is "" when none was given.
Writers ==
    [project : {"", "p"}, dataset : {"d1", "d2"}, table : {"t1", "t2"},
     create_disposition : {"CREATE_IF_NEEDED", "CREATE_NEVER"},
     write_disposition : {"WRITE_TRUNCATE", "WRITE_APPEND", "WRITE_EMPTY"}]

\* The calls of write that may raise: _get_client (line 123),
\* client.load_table_from_dataframe (lines 159-161), job.result (line 165).
FailingCalls == {"client", "submit", "result"}

Causes == {"Permission denied", "Quota exceeded"}

\* table_id of lines 126-129, as the sequence of its dotted parts.
TableId(w) ==
    IF w.project # "" THEN <<w.project, w.dataset, w.table>>
    ELSE <<w.dataset, w.table>>

\* The LoadJobConfig of lines 132-156.
LoadJobConfig(w) ==
    [create_disposition |-> w.create_disposition,
     write_disposition |-> w.write_disposition]

\* An exception that leaves write as it was raised: its message is the
\* cause's own and names no table.
Propagated(c) ==
    [type |-> "Exception", message |-> c, table |-> <<>>, from |-> ""]

\* The RuntimeError of lines 167-170: "Failed to write to BigQuery table
\* {dataset}.{table}. Error: {str(e)}", raised from e.
WriteFailure(w, c) ==
    [type |-> "RuntimeError",
     message |-> "Failed to write to BigQuery table",
     table |-> <<w.dataset, w.table>>, from |-> c]

NoWriteError == Propagated("")

InitWrite ==
    /\ pc = "start"
    /\ writer \in Writers
    /\ \/ fail_at = "none" /\ cause = ""
       \/ fail_at \in FailingCalls /\ cause \in Causes
    /\ table_id = <<>>
    /\ job_config = <<>>
    /\ write_error = NoWriteError
    /\ SelectIdle
    /\ CompareIdle
    /\ DetectIdle
    /\ ActualIdle
    /\ StageIdle
    /\ NotifyIdle
    /\ WorkflowIdle
    /\ SplitIdle
    /\ FilterIdle

\* write, lines 120-161: the client is obtained, the table id and the job
\* configuration are built and the load job is submitted.  An exception of
\* _get_client or of load_table_from_dataframe leaves write as it is.
SubmitLoadJob ==
    /\ pc = "start"
    /\ IF fail_at = "client"
       THEN /\ pc' = "failed"
            /\ write_error' = Propagated(cause)
            /\ UNCHANGED <<table_id, job_config>>
       ELSE /\ table_id' = TableId(writer)
            /\ job_config' = LoadJobConfig(writer)
            /\ IF fail_at = "submit"
               THEN pc' = "failed" /\ write_error' = Propagated(cause)
               ELSE pc' = "submitted" /\ UNCHANGED write_error
    /\ UNCHANGED <<writer, fail_at, cause>>
    /\ UNCHANGED outsideWrite

\* write, lines 163-170: job.result() inside the try.
JobResult ==
    /\ pc = "submitted"
    /\ IF fail_at = "result"
       THEN pc' = "failed" /\ write_error' = WriteFailure(writer, cause)
       ELSE pc' = "written" /\ UNCHANGED write_error
    /\ UNCHANGED <<writer, fail_at, cause, table_id, job_config>>
    /\ UNCHANGED outsideWrite

NextWrite == SubmitLoadJob \/ JobResult

SpecWrite == InitWrite /\ [][NextWrite]_vars

---------------------------------------------------------------------------
(* SpecNotify: NotificationWorkflow.run, lines 54-81, on a workflow that   *)
(* __init__ accepted: a non-empty table and a non-empty list of notifiers. *)
(* A notifier is its class name and what its notify does: it returns       *)
(* ("ok") or raises an Exception with a message.                           *)

\* The largest number of notifiers of a workflow.
MaxNotifiers == 3

NotifierClasses == {"EmailNotifier", "SlackNotifier"}

NotifyOutcomes == {"ok", "SMTP timeout", "HTTP 500"}

Notifiers ==
    UNION {[1..n -> [name : NotifierClasses, outcome : NotifyOutcomes]] :
                n \in 1..MaxNotifiers}

\* payload of line 70.
Payload(df) == [anomalies |-> df]

\* Mutant of NotifyFailure: the error names no notifier.
NotifyFailureUnnamed(notifier, e) ==
    [type |-> "RuntimeError", notifier |-> "", message |-> e, from |-> e]

\* The RuntimeError of lines 78-81: "Failed to send notification via
\* {type(notifier).__name__}: {str(e)}", raised from e.
NotifyFailure(notifier, e) ==
    [type |-> "RuntimeError", notifier |-> notifier.name, message |-> e,
     from |-> e]

NoNotifyError == [type |-> "", notifier |-> "", message |-> "", from |-> ""]

\* Mutant of AfterNotify: the loop goes on after a notifier has raised, and
\* run raises once the list is exhausted.
AfterNotifyContinues(raised, idx, n) ==
    IF idx < n THEN "notifying"
    ELSE IF raised THEN "failed" ELSE "returned"

\* Where run is after the notify call of notifier idx of n, lines 73-81: the
\* raise of line 79 leaves the loop and run, the end of the list ends run.
AfterNotify(raised, idx, n) ==
    IF raised THEN "failed"
    ELSE IF idx < n THEN "notifying" ELSE "returned"

InitNotify ==
    /\ pc = "start"
    /\ notifiers \in Notifiers
    /\ anomalies_data \in {"anomalies1", "anomalies2"}
    /\ payload = <<>>
    /\ notify_idx = 0
    /\ notify_calls = <<>>
    /\ notify_error = NoNotifyError
    /\ SelectIdle
    /\ CompareIdle
    /\ DetectIdle
    /\ ActualIdle
    /\ StageIdle
    /\ WorkflowIdle
    /\ SplitIdle
    /\ FilterIdle
    /\ WriteIdle

\* run, line 70, and the entry of the loop of line 73 (the list is not
\* empty).
PreparePayload ==
    /\ pc = "start"
    /\ payload' = Payload(anomalies_data)
    /\ notify_idx' = 1
    /\ pc' = "notifying"
    /\ UNCHANGED <<notifiers, anomalies_data, notify_calls, notify_error>>
    /\ UNCHANGED outsideNotify

\* One iteration of the loop of lines 73-81.
NotifyNext ==
    /\ pc = "notifying"
    /\ LET notifier == notifiers[notify_idx]
           raised == notifier.outcome # "ok"
       IN  /\ notify_calls' = Append(notify_calls,
                                     [who |-> notify_idx, arg |-> payload,
                                      raised |-> raised])
           /\ notify_error' = IF raised
                               THEN NotifyFailure(notifier, notifier.outcome)
                               ELSE notify_error
           /\ pc' = AfterNotify(raised, notify_idx, Len(notifiers))
           /\ notify_idx' = notify_idx + 1
    /\ UNCHANGED <<notifiers, anomalies_data, payload>>
    /\ UNCHANGED outsideNotify

NextNotify == PreparePayload \/ NotifyNext

SpecNotify == InitNotify /\ [][NextNotify]_vars

---------------------------------------------------------------------------
(* SpecStage: process() of a post stage (AnomalyFilter, DeviationFilter,   *)
(* DeviationFormatter) on a result table the caller holds.                 *)
(*                                                                         *)
(* A result table here has an optional 'status' and an optional            *)
(* 'deviation_pct' column; a deviation is a number (k = "num", v its       *)
(* hundredths of a percent) or the text a formatter made of one (k =       *)
(* "pct": the text of v followed by '%').  process() yields the            *)
(* DataFrame objects that exist when it returns, the caller's first, and   *)
(* which of them it returned.                                              *)

\* Deviations of anomaly rows: -33.33, 12.5 and 25.05 percent.
StageDeviations == {-3333, 1250, 2505}

StageRow(idx, status, deviation_pct) ==
    [idx |-> idx, status |-> status, deviation_pct |-> Num(deviation_pct)]

\* The status and deviation of a row of a detection result.
StageCells ==
    {<<"IN_RANGE", 0>>, <<"NO_FORECAST", 0>>}
    \cup ({"BELOW_P10", "ABOVE_P90"} \X StageDeviations)

StageTable(rows, has_status, has_deviation) ==
    [none |-> FALSE, has_status |-> has_status,
     has_deviation |-> has_deviation, rows |-> rows]

\* Detection results of up to MaxRows rows, and one-row tables without a
\* 'status' or without a 'deviation_pct' column.
StageTables ==
    UNION {{StageTable([i \in 1..n |-> StageRow(i - 1, c[i][1], c[i][2])],
                       TRUE, TRUE) :
                c \in [1..n -> StageCells]} : n \in 0..MaxRows}
    \cup {StageTable(<<StageRow(0, "", d)>>, FALSE, TRUE) :
                d \in StageDeviations}
    \cup {StageTable(<<StageRow(0, st, 0)>>, TRUE, FALSE) : st \in Statuses}

\* The stages constructed: min_deviation_pct is 0, 10 or 25 percent,
\* decimal_places 0, 1 or 2.
Stages ==
    [kind : {"AnomalyFilter"}, exclude_no_forecast : BOOLEAN]
    \cup [kind : {"DeviationFilter"}, min_deviation_pct : {0, 1000, 2500},
          keep_in_range : BOOLEAN]
    \cup [kind : {"DeviationFormatter"}, decimal_places : {0, 1, 2}]

\* The objects process leaves and the one it returned.
Effect(objects, ret) == [objects |-> objects, ret |-> ret]

\* AnomalyFilter.process, lines 37-43, as an effect: results_df[...].copy()
\* is a new object.
AnomalyFilterEffect(exclude, df) ==
    IF Empty(df) \/ ~df.has_status THEN Effect(<<df>>, 1)
    ELSE Effect(<<df, AnomalyFilterProcess(exclude, df)>>, 2)

\* The mask of lines 46-51 for one row.
DeviationMask(min_deviation_pct, keep_in_range, df, r) ==
    IF keep_in_range /\ df.has_status
    THEN r.status = "IN_RANGE" \/ r.deviation_pct.v >= min_deviation_pct
    ELSE r.deviation_pct.v >= min_deviation_pct

\* DeviationFilter.process, lines 43-53.
DeviationFilterEffect(min_deviation_pct, keep_in_range, df) ==
    IF Empty(df) \/ ~df.has_deviation THEN Effect(<<df>>, 1)
    ELSE Effect(<<df,
                  [df EXCEPT !.rows =
                      SelectSeq(df.rows,
                                LAMBDA r : DeviationMask(min_deviation_pct,
                                                         keep_in_range,
                                                         df, r))]>>, 2)

\* 10 ^ k for k in 0..2.
Pow10(k) == IF k = 0 THEN 1 ELSE IF k = 1 THEN 10 ELSE 100

\* round(decimal_places).astype(str) + '%' of lines 46-50 for one value:
\* the text of the rounded number with the sign appended.
FormatDeviation(d, decimal_places) ==
    [k |-> "pct",
     v |-> RoundHalfEvenDiv(d.v, Pow10(2 - decimal_places))
            * Pow10(2 - decimal_places)]

\* The table with its 'deviation_pct' column formatted.
FormatColumn(df, decimal_places) ==
    [df EXCEPT !.rows =
        [i \in 1..Len(df.rows) |->
            [df.rows[i] EXCEPT !.deviation_pct =
                FormatDeviation(df.rows[i].deviation_pct, decimal_places)]]]

\* Mutant of DeviationFormatterEffect: the column is assigned on the table
\* handed in, without the copy of line 43.
DeviationFormatterInPlace(decimal_places, df) ==
    IF Empty(df) \/ ~df.has_deviation THEN Effect(<<df>>, 1)
    ELSE Effect(<<FormatColumn(df, decimal_places)>>, 1)

\* DeviationFormatter.process, lines 40-52: the column is assigned on the
\* copy made at line 43.
DeviationFormatterEffect(decimal_places, df) ==
    IF Empty(df) \/ ~df.has_deviation THEN Effect(<<df>>, 1)
    ELSE Effect(<<df, FormatColumn(df, decimal_places)>>, 2)

\* stage.process(df)
StageProcess(s, df) ==
    CASE s.kind = "AnomalyFilter" ->
            AnomalyFilterEffect(s.exclude_no_forecast, df)
      [] s.kind = "DeviationFilter" ->
            DeviationFilterEffect(s.min_deviation_pct, s.keep_in_range, df)
      [] s.kind = "DeviationFormatter" ->
            DeviationFormatterEffect(s.decimal_places, df)

InitStage ==
    /\ pc = "start"
    /\ stage \in Stages
    /\ stage_input \in StageTables
    /\ caller_df = stage_input
    /\ stage_returned = NoneTable
    /\ returned_input = FALSE
    /\ SelectIdle
    /\ CompareIdle
    /\ DetectIdle
    /\ ActualIdle
    /\ WorkflowIdle
    /\ SplitIdle
    /\ FilterIdle
    /\ WriteIdle
    /\ NotifyIdle

\* stage.process(caller_df)
Process ==
    /\ pc = "start"
    /\ \E e \in {StageProcess(stage, caller_df)} :
        /\ caller_df' = e.objects[1]
        /\ stage_returned' = e.objects[e.ret]
        /\ returned_input' = (e.ret = 1)
    /\ pc' = "processed"
    /\ UNCHANGED <<stage, stage_input>>
    /\ UNCHANGED outsideStage

NextStage == Process

SpecStage == InitStage /\ [][NextStage]_vars

---------------------------------------------------------------------------
(* SpecActual: CumulativeThresholdFilter.filter, lines 95-107, and         *)
(* _filter_actual_by_metrics, lines 109-148, for a transformer with        *)
(* 'columns'.  The metric columns of the forecast are the keys the pivoter *)
(* makes of the actual rows; lines 58-93 keep the first columns of some    *)
(* descending order of them, which can be any columns in any order.        *)

\* The 'value' column of the actual rows drawn.
ActualValues == {1, 2}

\* A row of the actual table: its raw dimension values and its value.
ActualRow(dims, value) == [dims |-> dims, value |-> value]

\* Actual tables of one or two rows over n dimension columns.
ActualTables(n) ==
    LET rows == {ActualRow(d, v) : d \in [1..n -> RawValues],
                                   v \in ActualValues}
    IN  {<<r>> : r \in rows} \cup {<<r1, r2>> : r1 \in rows, r2 \in rows}

\* The metric columns of the forecast that belongs to an actual table.
ActualMetricKeys(df) == {MetricKey(df[i].dims) : i \in 1..Len(df)}

\* The non-empty lists without repetition of one or two elements of S.
OrderedSubsets(S) ==
    {<<k>> : k \in S} \cup {p \in S \X S : p[1] # p[2]}

\* drop_duplicates(): the first occurrence of each row.
RECURSIVE DropDuplicates(_)
DropDuplicates(rows) ==
    IF Len(rows) = 0 THEN <<>>
    ELSE LET front == DropDuplicates(SubSeq(rows, 1, Len(rows) - 1))
             last == rows[Len(rows)]
         IN  IF \E i \in 1..Len(front) : front[i] = last THEN front
             ELSE Append(front, last)

\* actual_df[mask] of lines 138-143 for the parts of one metric: the rows
\* whose raw value in every transformer column equals the part.
RowsMatching(df, parts) ==
    SelectSeq(df, LAMBDA r : \A i \in 1..Len(parts) : r.dims[i] = parts[i])

\* filtered_rows of lines 131-143, concatenated.
RECURSIVE FilteredRows(_, _, _)
FilteredRows(df, metrics, n) ==
    IF Len(metrics) = 0 THEN <<>>
    ELSE LET parts == SplitUnderscore(Head(metrics))
         IN  (IF Len(parts) = n THEN RowsMatching(df, parts) ELSE <<>>)
             \o FilteredRows(df, Tail(metrics), n)

\* _filter_actual_by_metrics(actual_df, metrics_to_keep), lines 120-148.
FilterActualByMetrics(df, metrics, columns) ==
    IF Len(df) = 0 THEN df
    ELSE DropDuplicates(FilteredRows(df, metrics, Len(columns)))

InitActual ==
    /\ pc = "start"
    /\ \E n \in 1..MaxDims :
        /\ transformer_columns = SubSeq(NamePool, 1, n)
        /\ actual_long \in ActualTables(n)
    /\ metrics_to_keep \in OrderedSubsets(ActualMetricKeys(actual_long))
    /\ filtered_actual = <<>>
    /\ SelectIdle
    /\ CompareIdle
    /\ DetectIdle
    /\ WorkflowIdle
    /\ SplitIdle
    /\ FilterIdle
    /\ WriteIdle
    /\ NotifyIdle
    /\ StageIdle

\* filter, lines 99-107: the actual table is filtered by the metrics kept.
FilterActual ==
    /\ pc = "start"
    /\ filtered_actual' = FilterActualByMetrics(actual_long, metrics_to_keep,
                                                transformer_columns)
    /\ pc' = "filtered"
    /\ UNCHANGED <<transformer_columns, actual_long, metrics_to_keep>>
    /\ UNCHANGED outsideActual

NextActual == FilterActual

SpecActual == InitActual /\ [][NextActual]_vars

---------------------------------------------------------------------------
(* Properties of _compare_metric, stated on the cell and the actual handed *)
(* to the call and on the row it returned.                                 *)

Compared == pc = "compared"
Returned == Compared /\ result.exc = ""

\* A valid quantile string: EXPECTED_QUANTILE_COUNT fields, each a number.
ValidCell ==
    /\ Len(forecast_value) = EXPECTED_QUANTILE_COUNT
    /\ \A i \in 1..Len(forecast_value) : forecast_value[i].k = "num"

NumericActual == actual_value.k = "num"

\* The point, lower and upper fields of a valid cell, and a numeric actual.
PointField == forecast_value[QUANTILE_POINT_IDX + 1].v
LowerField == forecast_value[QUANTILE_Q10_IDX + 1].v
UpperField == forecast_value[QUANTILE_Q90_IDX + 1].v
ActualField == actual_value.v

AllZeroFields == PointField = 0 /\ LowerField = 0 /\ UpperField = 0

\* d (hundredths) is num / den * 100 rounded to two decimals.
IsRounded2(d, num, den) ==
    /\ 2 * Abs(d * den - num * 10000) <= Abs(den)
    /\ 2 * Abs(d * den - num * 10000) = Abs(den) => d % 2 = 0

\* C1 as stated: a valid quantile string and a numeric actual with
\* lower <= actual <= upper give status IN_RANGE and deviation 0.
C1_InRangeAnyValidCell ==
    (Compared /\ ValidCell /\ NumericActual
        /\ LowerField <= ActualField /\ ActualField <= UpperField)
    => (result.exc = "" /\ result.status = "IN_RANGE"
        /\ result.deviation_pct = 0)

\* C1 amended: a valid quantile string whose point, lower and upper are not
\* all zero and a numeric actual with lower <= actual <= upper give status
\* IN_RANGE and deviation 0.
C1_InRange ==
    (Compared /\ ValidCell /\ NumericActual /\ ~AllZeroFields
        /\ LowerField <= ActualField /\ ActualField <= UpperField)
    => (result.exc = "" /\ result.status = "IN_RANGE"
        /\ result.deviation_pct = 0)

\* The scenario: the forecast 1000|900|...|1100 with actual 950 is IN_RANGE.
C1_Witness ==
    /\ Compared /\ forecast_value = ScenarioCell
    /\ actual_value = Num(950 * Scale)
    /\ result.status = "IN_RANGE" /\ result.deviation_pct = 0

\* C2: a valid quantile string and a numeric actual with actual < lower and
\* lower # 0 give the below-lower status and the deviation
\* round((lower - actual) / lower * 100, 2).
C2_BelowLower ==
    (Compared /\ ValidCell /\ NumericActual
        /\ ActualField < LowerField /\ LowerField # 0)
    => (result.exc = "" /\ result.status = "BELOW_P10"
        /\ IsRounded2(result.deviation_pct, LowerField - ActualField,
                      LowerField))

\* The scenario: actual 600 against lower 900 deviates by 33.33 percent.
C2_Witness ==
    /\ Compared /\ forecast_value = ScenarioCell
    /\ actual_value = Num(600 * Scale)
    /\ result.status = "BELOW_P10" /\ result.deviation_pct = 3333

\* C3 as stated: a valid quantile string and a numeric actual with
\* actual > upper and upper # 0 give the above-upper status and the
\* deviation round((actual - upper) / upper * 100, 2).
C3_AboveUpperAnyValidCell ==
    (Compared /\ ValidCell /\ NumericActual
        /\ ActualField > UpperField /\ UpperField # 0)
    => (result.exc = "" /\ result.status = "ABOVE_P90"
        /\ IsRounded2(result.deviation_pct, ActualField - UpperField,
                      UpperField))

\* C3 amended: a valid quantile string and a numeric actual with
\* actual > upper, upper # 0 and actual not below lower (which only reversed
\* bounds allow) give the above-upper status and the deviation
\* round((actual - upper) / upper * 100, 2).
C3_AboveUpper ==
    (Compared /\ ValidCell /\ NumericActual
        /\ ActualField > UpperField /\ UpperField # 0
        /\ ~(ActualField < LowerField))
    => (result.exc = "" /\ result.status = "ABOVE_P90"
        /\ IsRounded2(result.deviation_pct, ActualField - UpperField,
                      UpperField))

\* The scenario: actual 1150 against upper 1100 deviates by 4.55 percent.
C3_Witness ==
    /\ Compared /\ forecast_value = ScenarioCell
    /\ actual_value = Num(1150 * Scale)
    /\ result.status = "ABOVE_P90" /\ result.deviation_pct = 455

\* The floats the call parsed from its forecast cell.
Parsed == ParseForecast(forecast_value)
ParsedAllZero ==
    Parsed = [point |-> Zero, q10 |-> Zero, q90 |-> Zero]
ParsedAnyNaN ==
    IsNaN(Parsed.point) \/ IsNaN(Parsed.q10) \/ IsNaN(Parsed.q90)

\* C4: when the parsed point, lower and upper are all zero, the status is
\* NO_FORECAST and the deviation 0 for every actual, positive, zero or
\* negative (and for an actual that is no number, which counts as 0.0).
C4_AllZeroNoForecast ==
    (Compared /\ ParsedAllZero /\ actual_value.k \notin {"nan", "inf"})
    => (result.exc = "" /\ result.status = "NO_FORECAST"
        /\ result.deviation_pct = 0)

\* An all-zero forecast compared with a positive actual.
C4_Witness ==
    /\ Compared /\ ValidCell /\ AllZeroFields
    /\ NumericActual /\ ActualField > 0
    /\ result.status = "NO_FORECAST"

\* C5: a returned row has status NO_FORECAST exactly when the parsed point,
\* lower and upper are all zero or one of them is not a number.
C5_NoForecastIff ==
    Returned =>
        (result.status = "NO_FORECAST" <=> (ParsedAllZero \/ ParsedAnyNaN))

\* A row that is not NO_FORECAST although the actual is 0 and two of the
\* three parsed values are 0.
C5_Witness ==
    /\ Returned /\ ValidCell /\ NumericActual /\ ActualField = 0
    /\ PointField # 0 /\ LowerField = 0 /\ UpperField = 0
    /\ result.status = "IN_RANGE"

\* C9: the call never raises, whatever the forecast cell and the actual cell
\* hold (too few fields, text that is no number, nan, infinity): it always
\* returns a row.
C9_NeverRaises ==
    Compared => result.exc = ""

\* C10: when any field of the cell fails numeric parsing, at whatever
\* position, the parsed point, lower and upper are all 0.0 and a row that is
\* returned has status NO_FORECAST.
C10_AnyFieldFails ==
    (Compared /\ \E i \in 1..Len(forecast_value) : FloatFails(forecast_value[i]))
    => (ParsedAllZero /\ (result.exc = "" => result.status = "NO_FORECAST"))

\* The field at position idx (from 0) of the cell handed to the call, "0"
\* when the cell has no such field.
AvailableField(idx) ==
    IF Len(forecast_value) > idx THEN forecast_value[idx + 1] ELSE Zero

\* The point, lower and upper read from the fields present are all 0.0: each
\* is missing or zero, or one of them is text that is no number.
AvailableAllZero ==
    \/ \E idx \in {QUANTILE_POINT_IDX, QUANTILE_Q10_IDX, QUANTILE_Q90_IDX} :
            AvailableField(idx).k = "str"
    \/ \A idx \in {QUANTILE_POINT_IDX, QUANTILE_Q10_IDX, QUANTILE_Q90_IDX} :
            AvailableField(idx) = Zero

\* The cell handed to the call cut or filled with "0" to
\* EXPECTED_QUANTILE_COUNT fields.
TenFields ==
    [i \in 1..EXPECTED_QUANTILE_COUNT |-> AvailableField(i - 1)]

WrongCount == Len(forecast_value) # EXPECTED_QUANTILE_COUNT

\* C11 as stated: a cell whose number of fields is not
\* EXPECTED_QUANTILE_COUNT gives a row of status NO_FORECAST and a warning,
\* whatever the fields present and the actual hold.
C11_WrongCountNoForecast ==
    (Compared /\ WrongCount)
    => (result.exc = "" /\ result.status = "NO_FORECAST" /\ warned)

\* C11 amended: a cell whose number of fields is not
\* EXPECTED_QUANTILE_COUNT is compared as the cell of its first
\* EXPECTED_QUANTILE_COUNT fields with "0" for each missing one; a returned
\* row has status NO_FORECAST exactly when the point, lower and upper so read
\* are all 0.0; the warning is issued exactly when fields are missing and the
\* point, lower and upper fields present are numbers.
C11_WrongCountUsesAvailable ==
    (Compared /\ WrongCount)
    => /\ result = CompareMetricRow("m", TenFields, actual_value, date_value)
       /\ result.exc = ""
            => (result.status = "NO_FORECAST" <=> AvailableAllZero)
       /\ warned <=>
            /\ Len(forecast_value) < EXPECTED_QUANTILE_COUNT
            /\ \A idx \in {QUANTILE_POINT_IDX, QUANTILE_Q10_IDX,
                           QUANTILE_Q90_IDX} :
                    AvailableField(idx).k # "str"

\* A cell of nine fields, upper missing, whose row is not NO_FORECAST: the
\* actual lies below the lower field.
C11_Witness ==
    /\ Compared /\ Len(forecast_value) = EXPECTED_QUANTILE_COUNT - 1
    /\ warned /\ NumericActual /\ ActualField < LowerField
    /\ result.status = "BELOW_P10"

---------------------------------------------------------------------------
(* Properties of detect, stated on the two tables handed to it and on the  *)
(* rows it returned.                                                       *)

Detected == pc = "detected"

\* The time keys of the actual table.
ActualTimeKeys == {r.date : r \in actual_df}

\* The actual value recorded for time key d and metric key k, 0.0 when the
\* actual table has none.
ActualAt(d, k) ==
    IF \E r \in actual_df : r.date = d /\ r.metric = k
    THEN (CHOOSE r \in actual_df : r.date = d /\ r.metric = k).value
    ELSE Zero

\* C12: detect pairs rows by time key: a result row is emitted for a
\* forecast row only when the actual table has a row with the same time
\* key, the actual value of each result row is the one the actual table
\* records for the row's time key and metric, and a forecast row whose time
\* key has no actual row produces no result row and no error.
C12_PairsByTimeKey ==
    Detected =>
        \A j \in 1..Len(results) :
            /\ results[j].row.date \in ActualTimeKeys
            /\ results[j].row.actual =
                    RoundToInt(ActualAt(results[j].row.date,
                                        results[j].row.metric).v)

\* The forecast rows detect compared: those whose index label is also an
\* index label of the pivoted actual table.
ComparedRows ==
    {i \in 1..Len(det_forecast_df) : i <= Cardinality(ActualTimeKeys)}

\* The metric keys present on either side.
MetricUnion == ForecastCols(det_forecast_df) \cup {r.metric : r \in actual_df}

\* The positions of the result rows of forecast row i for metric key k.
ResultsOf(i, k) ==
    {j \in 1..Len(results) :
        results[j].idx = i /\ results[j].row.metric = k}

ValidateRaised(message) ==
    /\ pc = "raised"
    /\ error = message
    /\ forecast_std = <<>> /\ actual_std = <<>> /\ all_columns = <<>>
    /\ results = <<>>

BothDataFrames == pc # "start" /\ input_types = "both"

\* C18 as stated: an empty forecast table raises the error naming the
\* forecast input and an empty actual table the error naming the actual
\* input, before any pivoting or comparison and with no result row.
C18_EmptyInputNamed ==
    /\ (BothDataFrames /\ Len(det_forecast_df) = 0)
        => ValidateRaised("ValueError: Forecast DataFrame is empty")
    /\ (BothDataFrames /\ actual_df = {})
        => ValidateRaised("ValueError: Actual DataFrame is empty")

\* C18 amended: the forecast table is checked first; an empty forecast table
\* raises the error naming the forecast input, an empty actual table with a
\* forecast table that is not empty the error naming the actual input,
\* before any pivoting or comparison and with no result row.
C18_EmptyInputForecastFirst ==
    /\ (BothDataFrames /\ Len(det_forecast_df) = 0)
        => ValidateRaised("ValueError: Forecast DataFrame is empty")
    /\ (BothDataFrames /\ Len(det_forecast_df) # 0 /\ actual_df = {})
        => ValidateRaised("ValueError: Actual DataFrame is empty")

\* detect raised on an empty actual table and a forecast table of two rows.
C18_Witness ==
    /\ BothDataFrames /\ Len(det_forecast_df) = 2 /\ actual_df = {}
    /\ ValidateRaised("ValueError: Actual DataFrame is empty")

---------------------------------------------------------------------------
(* Properties of the workflow, stated on the calls it made on its          *)
(* collaborators and on what the entry point returned or raised.           *)

RunReturned == pc = "returned" /\ method = "run"

\* The position in calls of the detect call of a run that got that far.
DetectPos == 2 + pre_filters + 1

\* C14: in every run() that returns, calls is: the forecast load, the
\* actual load, each pre-filter in list order (the first on the pair
\* loaded, each next one on the pair the previous one returned), one detect
\* on the last pair, each post-filter in list order (the first on the
\* detection result, each next one on the table the previous one returned),
\* and one write of the last table, which is the table run() returns.
C14_CallOrder ==
    RunReturned =>
        /\ Len(calls) = DetectPos + Len(post_filters) + 1
        /\ calls[1].op = "forecast_reader.load"
        /\ calls[2].op = "actual_reader.load"
        /\ \A i \in 1..pre_filters :
            /\ calls[2 + i].op = "pre_filter.filter"
            /\ calls[2 + i].who = i
            /\ calls[2 + i].arg =
                    IF i = 1 THEN <<calls[1].ret[1], calls[2].ret[1]>>
                    ELSE calls[2 + i - 1].ret
        /\ calls[DetectPos].op = "anomaly_detector.detect"
        /\ calls[DetectPos].arg =
                IF pre_filters = 0 THEN <<calls[1].ret[1], calls[2].ret[1]>>
                ELSE calls[DetectPos - 1].ret
        /\ \A j \in 1..Len(post_filters) :
            /\ calls[DetectPos + j].op = "post_filter.process"
            /\ calls[DetectPos + j].who = j
            /\ calls[DetectPos + j].arg = calls[DetectPos + j - 1].ret
        /\ calls[Len(calls)].op = "data_writer.write"
        /\ calls[Len(calls)].arg = calls[Len(calls) - 1].ret
        /\ calls[Len(calls)].arg = One(returned)
        /\ \A i \in 1..Len(calls) : ~calls[i].raised

\* A run() that returned with two pre-filters, the first of which changed
\* the pair, and two post-filters.
C14_Witness ==
    /\ RunReturned
    /\ pre_filters = 2 /\ Len(post_filters) = 2
    /\ calls[3].ret # calls[3].arg
    /\ calls[Len(calls)].op = "data_writer.write"

\* C15: when the forecast reader returns None or an empty table, the entry
\* point raises the error naming the forecast reader and no other call is
\* made; when the actual reader returns None or an empty table, it raises
\* the error naming the actual reader and no call follows the two loads.
C15_EmptyLoadFails ==
    /\ (Len(calls) >= 1 /\ NoneOrEmpty(calls[1].ret[1]))
        => /\ pc = "failed"
           /\ wf_error = "ValueError: Forecast reader returned empty dataset. Cannot proceed with anomaly detection."
           /\ Len(calls) = 1
    /\ (Len(calls) >= 2 /\ NoneOrEmpty(calls[2].ret[1]))
        => /\ pc = "failed"
           /\ wf_error = "ValueError: Actual reader returned empty dataset. Cannot proceed with anomaly detection."
           /\ Len(calls) = 2
           /\ calls[2].op = "actual_reader.load"

\* run() failed on an actual reader that returned None, with pre-filters,
\* post-filters and a writer configured.
C15_Witness ==
    /\ pc = "failed" /\ method = "run" /\ data_writer = "writer"
    /\ pre_filters > 0 /\ Len(post_filters) > 0
    /\ Len(calls) = 2 /\ calls[2].ret[1] = NoneTable

\* The detector returned None or an empty table at position i of calls.
EmptyDetection(i) ==
    /\ calls[i].op = "anomaly_detector.detect"
    /\ ~calls[i].raised
    /\ NoneOrEmpty(calls[i].ret[1])

\* C16: when the detector returns None or an empty table, run() and
\* run_without_output() raise the error naming the detector, and no call
\* follows the detect call: no post-filter is applied, nothing is written.
C16_EmptyDetectionTerminal ==
    \A i \in 1..Len(calls) :
        EmptyDetection(i)
        => /\ pc = "failed"
           /\ wf_error = "ValueError: Anomaly detector returned empty results. Check your data and configuration."
           /\ Len(calls) = i
           /\ returned = NoneTable

\* run_without_output() failed on an empty (not None) detection result,
\* with post-filters configured.
C16_Witness ==
    /\ pc = "failed" /\ method = "run_without_output"
    /\ Len(post_filters) > 0
    /\ EmptyDetection(Len(calls))
    /\ ~calls[Len(calls)].ret[1].none

\* The tables handed over by call i of calls.
HandedOver(i) ==
    IF calls[i].op \in {"pre_filter.filter", "anomaly_detector.detect"}
    THEN {calls[i].arg[1], calls[i].arg[2]}
    ELSE IF calls[i].op \in {"post_filter.process", "data_writer.write"}
    THEN {calls[i].arg[1]}
    ELSE {}

\* C17 as stated: no stage is ever handed an empty table, and the table
\* handed to the writer and returned by run() is never empty.
C17_NeverPassesEmpty ==
    /\ \A i \in 1..Len(calls) : \A df \in HandedOver(i) : ~NoneOrEmpty(df)
    /\ RunReturned => ~NoneOrEmpty(returned)

\* C17 amended: the workflow checks three tables, the forecast loaded, the
\* actual loaded and the detection result: the stage that follows the two
\* loads and the stage that follows the detect call are never handed an
\* empty table, and a run without post-filters never returns one.  What a
\* pre-filter or a post-filter returns is passed on as it is.
C17_ChecksLoadsAndDetection ==
    /\ Len(calls) >= 3
        => \A df \in HandedOver(3) : ~NoneOrEmpty(df)
    /\ \A i \in 2..Len(calls) :
        calls[i - 1].op = "anomaly_detector.detect"
        => \A df \in HandedOver(i) : ~NoneOrEmpty(df)
    /\ (pc = "returned" /\ Len(post_filters) = 0) => ~NoneOrEmpty(returned)
    /\ \A i \in 2..Len(calls) :
        calls[i - 1].op \in {"pre_filter.filter", "post_filter.process"}
        => calls[i].arg = calls[i - 1].ret

\* run() wrote and returned the empty table an AnomalyFilter made of a
\* detection result that was not empty.
C17_Witness ==
    /\ RunReturned
    /\ post_filters = <<"AnomalyFilter">>
    /\ ~Empty(calls[DetectPos].ret[1])
    /\ calls[Len(calls)].op = "data_writer.write"
    /\ Empty(calls[Len(calls)].arg[1])
    /\ Empty(returned)

---------------------------------------------------------------------------
(* Properties of the dimension splitter.                                   *)

\* C19: a metric key formed by joining len(dimension_names) sanitized
\* dimension values with '_' is split into dimension columns that each hold
\* a text, and joining those texts with '_' gives the key again, whatever
\* the key of the other row.
C19_SplitRejoin ==
    pc = "split" =>
        /\ \A i \in 1..Len(dimension_names) :
                ~dimension_columns[1][i].null
        /\ JoinUnderscore([i \in 1..Len(dimension_names) |->
                                dimension_columns[1][i].text])
                = metric_column[1]

\* The key "x_" of the values "x" and "-", in a table whose other key has
\* four parts.
C19_Witness ==
    /\ pc = "split"
    /\ dimension_values = <<<<"x">>, <<"-">>>>
    /\ metric_column[1] = <<"x", "_">>
    /\ Len(metric_column) = 2
    /\ Len(SplitUnderscore(metric_column[2])) = 4
    /\ dimension_columns[1] = <<Text(<<"x">>), Text(<<>>)>>

---------------------------------------------------------------------------
(* Properties of the status filter.                                        *)

\* C20: for every result table, AnomalyFilter.process applied to its own
\* output returns the same rows as the first application.
C20_Idempotent ==
    pc = "twice" => filtered_twice = filtered_once

\* A table of three rows of which the filter kept the last two, twice.
C20_Witness ==
    /\ pc = "twice"
    /\ Len(input_df.rows) = 3
    /\ filtered_once.rows =
            <<ResultRow(1, "BELOW_P10"), ResultRow(2, "ABOVE_P90")>>
    /\ filtered_twice.rows = filtered_once.rows

---------------------------------------------------------------------------
(* Negative and reversed bounds in _compare_metric.                        *)

\* C28 as stated: for a valid quantile string, negative bounds included, and
\* a numeric actual, the deviation of the result row is never negative.
C28_DeviationNonNegative ==
    (Compared /\ ValidCell /\ NumericActual /\ result.exc = "")
    => result.deviation_pct >= 0

\* Reversed bounds: the lower field is above the upper field.
ReversedBounds == LowerField > UpperField

\* C30: for a valid quantile string with lower > upper, not all zero, and a
\* numeric actual, the status is never IN_RANGE: it is BELOW_P10 exactly when
\* actual < lower, and ABOVE_P90 otherwise.
C30_ReversedBounds ==
    (Compared /\ ValidCell /\ NumericActual /\ ReversedBounds
        /\ ~AllZeroFields)
    => /\ result.exc = ""
       /\ result.status # "IN_RANGE"
       /\ result.status = "BELOW_P10" <=> ActualField < LowerField
       /\ result.status = "ABOVE_P90" <=> ActualField >= LowerField

\* An actual strictly between the upper and the lower field is below the
\* lower bound although it is also above the upper one.
C30_Witness ==
    /\ Compared /\ ValidCell /\ NumericActual /\ ReversedBounds
    /\ UpperField < ActualField /\ ActualField < LowerField
    /\ result.status = "BELOW_P10"

---------------------------------------------------------------------------
(* Properties of run() without a writer and of AnomalyFilter's argument.   *)

\* The error of self.data_writer.write when data_writer is None.
NoWriterError == "AttributeError: 'NoneType' object has no attribute 'write'"

\* C25 as stated: a run() of a workflow constructed with data_writer = None
\* whose detection got through does not raise for want of a writer: it
\* fails only where the detection itself failed, and otherwise returns the
\* detection result.
C25_RunsWithoutWriter ==
    (method = "run" /\ data_writer = "None")
    => /\ wf_error # NoWriterError
       /\ (pc = "failed"
            => \/ calls[Len(calls)].raised
               \/ NoneOrEmpty(calls[Len(calls)].ret[1]))

\* The NO_FORECAST rows of a table.
NoForecastRows(df) ==
    {i \in 1..Len(df.rows) : df.rows[i].status = "NO_FORECAST"}

\* C26 as stated: AnomalyFilter(exclude_no_forecast = False).process keeps
\* the NO_FORECAST rows of its input with the anomaly rows, and
\* AnomalyFilter(exclude_no_forecast = True).process drops them.
C26_ExcludeNoForecastDecides ==
    (pc \in {"once", "twice"} /\ input_df.has_status)
    => IF exclude_no_forecast
       THEN \A i \in NoForecastRows(input_df) :
                \A j \in 1..Len(filtered_once.rows) :
                    filtered_once.rows[j] # input_df.rows[i]
       ELSE \A i \in NoForecastRows(input_df) :
                \E j \in 1..Len(filtered_once.rows) :
                    filtered_once.rows[j] = input_df.rows[i]

---------------------------------------------------------------------------
(* Properties of the constructors that take a threshold.                   *)

\* C23 as stated: a threshold outside (0, 1] is rejected at construction, by
\* CumulativeThresholdFilter and by ForecastActualComparator alike: no
\* component is constructed with one and no selector runs with one.
C23_InvalidThresholdRejected ==
    ~ValidThreshold(threshold_pct)
    => pc \in {"start", "filter_rejected", "comparator_rejected"}

---------------------------------------------------------------------------
(* Properties of BigQueryDataWriter.write.                                 *)

\* C24 as stated: a write call that fails, at the submission of the load
\* job or in the job itself, raises an error that names the destination
\* table and carries the underlying cause.
C24_WriteFailuresWrapped ==
    (pc = "failed" /\ fail_at \in {"submit", "result"})
    => /\ write_error.type = "RuntimeError"
       /\ write_error.table = <<writer.dataset, writer.table>>
       /\ write_error.from = cause

---------------------------------------------------------------------------
(* Properties of NotificationWorkflow.run.                                 *)

\* The notify call i of the run raised.
NotifyRaised(i) == notify_calls[i].raised

\* C22: when a notify call raises, run() raises: it does not return, and
\* its error is a RuntimeError that names the class of the notifier that
\* raised and carries that notifier's exception as its cause and the
\* exception's message in its own.
C22_FailureNamed ==
    \A i \in 1..Len(notify_calls) :
        NotifyRaised(i)
        => /\ pc = "failed"
           /\ notify_error.type = "RuntimeError"
           /\ notify_error.notifier = notifiers[notify_calls[i].who].name
           /\ notify_error.from = notifiers[notify_calls[i].who].outcome
           /\ notify_error.message = notifiers[notify_calls[i].who].outcome

\* The second of three notifiers raised: the error names its class, which
\* is not the class of the first.
C22_Witness ==
    /\ pc = "failed" /\ Len(notifiers) = 3
    /\ Len(notify_calls) = 2 /\ NotifyRaised(2)
    /\ notifiers[1].name = "EmailNotifier"
    /\ notifiers[2].name = "SlackNotifier"
    /\ notify_error.notifier = "SlackNotifier"
    /\ notify_error.from = "HTTP 500"

\* The notifiers whose notify raises.
Failing == {i \in 1..Len(notifiers) : notifiers[i].outcome # "ok"}

\* C29: the notify calls made so far are those of the first notifiers of
\* the list, in list order, one call each, all with the payload of the run;
\* no call follows a call that raised; a run that raised has called the
\* notifiers up to the first that raises and no other; a run that returned
\* has called them all.
C29_FailFast ==
    /\ Len(notify_calls) <= Len(notifiers)
    /\ \A i \in 1..Len(notify_calls) :
        /\ notify_calls[i].who = i
        /\ notify_calls[i].arg = [anomalies |-> anomalies_data]
        /\ NotifyRaised(i) => i = Len(notify_calls)
    /\ pc = "failed"
        => /\ Failing # {}
           /\ \A j \in Failing : Len(notify_calls) <= j
           /\ Len(notify_calls) \in Failing
    /\ pc = "returned"
        => Len(notify_calls) = Len(notifiers) /\ Failing = {}

\* The first of three notifiers returned, the second raised and the third,
\* which would have returned, was not called.
C29_Witness ==
    /\ pc = "failed" /\ Len(notifiers) = 3
    /\ notifiers[1].outcome = "ok"
    /\ notifiers[2].outcome # "ok"
    /\ notifiers[3].outcome = "ok"
    /\ Len(notify_calls) = 2
    /\ ~NotifyRaised(1) /\ NotifyRaised(2)

---------------------------------------------------------------------------
(* Properties of the post stages.                                          *)

\* C21: after process() of an AnomalyFilter, a DeviationFilter or a
\* DeviationFormatter the caller's table has the rows and the cell values
\* it had when it was handed in, and for an empty table the table returned
\* equals the table handed in.
C21_InputUnchanged ==
    pc = "processed"
    => /\ caller_df = stage_input
       /\ Empty(stage_input) => stage_returned = stage_input

\* A DeviationFormatter returned a table whose deviations are text, and the
\* caller's table still holds the numbers.
C21_Witness ==
    /\ pc = "processed" /\ stage.kind = "DeviationFormatter"
    /\ Len(stage_input.rows) = 2
    /\ stage.decimal_places = 0
    /\ stage_input.rows[2].deviation_pct = Num(2505)
    /\ stage_returned.rows[2].deviation_pct = [k |-> "pct", v |-> 2500]
    /\ caller_df.rows[2].deviation_pct = Num(2505)
    /\ ~returned_input

---------------------------------------------------------------------------
(* Properties of CumulativeThresholdFilter.filter on the actual table.     *)

\* The rows of the actual table whose metric key is a column kept.
RowsOfKeptMetrics ==
    {actual_long[i] : i \in {i \in 1..Len(actual_long) :
        MetricKey(actual_long[i].dims) \in Range(metrics_to_keep)}}

\* C27 as stated: the filtered actual table holds exactly the rows of the
\* actual table whose metric key (the sanitized dimension values joined
\* with '_') is a metric column kept in the filtered forecast, whatever the
\* raw dimension values are.
C27_ActualMatchesForecast ==
    pc = "filtered" => Range(filtered_actual) = RowsOfKeptMetrics

---------------------------------------------------------------------------
(* Properties of the cumulative-volume selectors, stated on the table and  *)
(* threshold they were given and on what they retained.                    *)

RECURSIVE SumOver(_, _)
SumOver(S, f) ==
    IF S = {} THEN 0
    ELSE LET x == CHOOSE y \in S : TRUE
         IN  f[x] + SumOver(S \ {x}, f)

PreFiltered == pc \in {"filtered", "selected", "detect_raised"}
PostFiltered == pc = "selected"

\* The ranking values: per metric column before detection, per result row
\* after it.
PreVolumes == ForecastValues(forecast_df)
PostVolumes == [i \in 1..Len(result_df) |-> result_df[i].forecast]

PreTotal == SumOver(DOMAIN PreVolumes, PreVolumes)
PostTotal == SumOver(DOMAIN PostVolumes, PostVolumes)

\* kept is not empty and holds at least the threshold's share of the total.
ReachesShare(kept, volumes, total) ==
    /\ kept # {}
    /\ SumOver(kept, volumes) * threshold_pct[2] >= threshold_pct[1] * total

C6_PreReachesShare ==
    (PreFiltered /\ PreTotal > 0)
    => ReachesShare(pre_kept, PreVolumes, PreTotal)

C6_PostReachesShare ==
    (PostFiltered /\ PostTotal > 0)
    => ReachesShare(post_kept, PostVolumes, PostTotal)

\* C6: for a non-empty input of positive total volume, what either selector
\* retains is not empty and its share of the total volume is at least
\* threshold_pct.
C6_ReachesShare == C6_PreReachesShare /\ C6_PostReachesShare

\* The value at the first rank, in descending order, whose cumulative share
\* reaches the threshold, for volumes that are not negative and a positive
\* total: the greatest value v such that the items of value >= v hold the
\* threshold's share.
CutoffValue(volumes, total) ==
    LET reaches(v) ==
            SumOver({i \in DOMAIN volumes : volumes[i] >= v}, volumes)
                * threshold_pct[2] >= threshold_pct[1] * total
        V == {volumes[i] : i \in DOMAIN volumes}
    IN  CHOOSE v \in V : reaches(v) /\ \A w \in V : reaches(w) => w <= v

RetainsFromCutoff(kept, volumes, total) ==
    kept = {i \in DOMAIN volumes : volumes[i] >= CutoffValue(volumes, total)}

NonNegative(volumes) == \A i \in DOMAIN volumes : volumes[i] >= 0

C7_PreRetainsFromCutoff ==
    (PreFiltered /\ PreTotal > 0 /\ NonNegative(PreVolumes))
    => RetainsFromCutoff(pre_kept, PreVolumes, PreTotal)

C7_PostRetainsFromCutoff ==
    (PostFiltered /\ PostTotal > 0 /\ NonNegative(PostVolumes))
    => RetainsFromCutoff(post_kept, PostVolumes, PostTotal)

\* C7: either selector retains exactly the items whose ranking value is at
\* least the value at the first rank whose cumulative share reaches
\* threshold_pct, ties included.
C7_RetainsFromCutoff == C7_PreRetainsFromCutoff /\ C7_PostRetainsFromCutoff

\* The two selectors rank the same volumes: one forecast row, and every
\* result row's 'forecast' is its metric's point-forecast sum.
SameVolumes ==
    /\ Len(forecast_df) = 1
    /\ \A i \in 1..Len(result_df) :
        result_df[i].forecast * Scale = PreVolumes[result_df[i].metric]

\* C8: given the same per-metric volumes and the same threshold_pct, the
\* pre-detection and the post-detection selector retain the same metrics.
C8_SameMetricsRetained ==
    (PostFiltered /\ SameVolumes)
    => pre_kept = {result_df[i].metric : i \in post_kept}

=============================================================================
